---------------------------- MODULE Spec2Model ----------------------------
(***************************************************************************)
(* Ankh-Aten: the component registry (ankh_aten/registry.py), its loaders  *)
(* (ankh_aten/loaders/*.py), the metrics snapshot (ankh_aten/metrics.py)   *)
(* and the reflect-plan-act-learn loop (ankh_aten/self_improve/loop.py).   *)
(*                                                                         *)
(* Conventions                                                             *)
(*  - A Python dict is an association list in insertion order: a sequence  *)
(*    of records, one per stored item (d[k] = v replaces the item with key *)
(*    k in place, or appends one).                                         *)
(*  - A dotted path ("a.b.C") is the sequence of its segments, so that     *)
(*    rsplit(".", 1) is computed, not assumed.                             *)
(*  - Reals are fixed point, SCALE units per 1.0 (0.9777 is 9777).         *)
(*  - A call returns through the variable ret: the operation, what it was  *)
(*    given and what it returned or raised.                                *)
(*  - The audit log file is taken to be writable: log_event does not fail. *)
(***************************************************************************)
EXTENDS Integers, Sequences, FiniteSets, TLC

VARIABLES
    components,         \* Registry.components: dict uid -> Component
    loaders,            \* Registry.loaders: dict kind -> dotted loader path
    I,                  \* metrics.I: the integration (awareness) vector
    cycle_count,        \* SelfImprovementLoop.cycle_count
    total_experiments,  \* SelfImprovementLoop.total_experiments
    improvements,       \* SelfImprovementLoop.improvements
    log,                \* the audit log file: the sequence of its records
    run,                \* the activation of run(max_cycles) in progress, if any
    writers,            \* the log_event calls in progress on the log file
    ret,                \* the last call: operation, arguments, result
    hist                \* history: what has been asked of the program so far

vars == <<components, loaders, I, cycle_count, total_experiments,
          improvements, log, run, writers, ret, hist>>

registryVars == <<components, loaders>>
loopVars == <<cycle_count, total_experiments, improvements, log, run>>

(***************************************************************************)
(* Bounds of the model                                                     *)
(***************************************************************************)
MaxRows == 2            \* longest manifest handed to register_manifest
MaxCycles == 2          \* most cycles a loop is taken through
MaxDirectCalls == 1      \* most direct phase calls of a client that also runs cycles
MaxAppends == 2          \* most log_event calls of one writer on a shared log
MaxPhaseCalls == 2       \* most calls of a client of the phase methods alone
MaxDepth == 5            \* deepest compression whose power of P is computed

Absent == "<absent>"    \* a key a mapping does not have

Min(a, b) == IF a <= b THEN a ELSE b
Max(a, b) == IF a >= b THEN a ELSE b

(***************************************************************************)
(* registry.py                                                             *)
(***************************************************************************)
UIDs == {"TEST_YAML", "TEST_PYTHON", "TEST_HTTP"}
Kinds == {"yaml", "python", "http", "structured-data"}

\* Component.__init__
Component(uid, kind, conf) == [uid |-> uid, kind |-> kind, conf |-> conf]

\* the config a manifest row without "config" gets: row.get("config", {})
EmptyConf ==
    [path |-> Absent, factory |-> <<>>, args |-> Absent, kwargs |-> Absent,
     url |-> Absent]

\* uid in self.components
HasComponent(comps, uid) == \E i \in DOMAIN comps : comps[i].uid = uid

\* self.components[uid], for a uid that is present
GetComponent(comps, uid) ==
    comps[CHOOSE i \in DOMAIN comps : comps[i].uid = uid]

\* as if the table were a list: the component is added, never replaced
PutComponentAppend(comps, c) == Append(comps, c)

\* self.components[c.uid] = c
PutComponent(comps, c) ==
    IF HasComponent(comps, c.uid)
    THEN [comps EXCEPT ![CHOOSE i \in DOMAIN comps : comps[i].uid = c.uid] = c]
    ELSE Append(comps, c)

\* kind in self.loaders
HasLoader(lds, kind) == \E i \in DOMAIN lds : lds[i].kind = kind

\* self.loaders[kind], for a kind that is bound
GetLoader(lds, kind) ==
    lds[CHOOSE i \in DOMAIN lds : lds[i].kind = kind].loader

\* self.loaders.setdefault(kind, loader): the first binding of a kind stays
PutLoaderOnce(lds, kind, loader) ==
    IF HasLoader(lds, kind) THEN lds
    ELSE Append(lds, [kind |-> kind, loader |-> loader])

\* self.loaders[kind] = loader
PutLoader(lds, kind, loader) ==
    IF HasLoader(lds, kind)
    THEN [lds EXCEPT ![CHOOSE i \in DOMAIN lds : lds[i].kind = kind] =
                        [kind |-> kind, loader |-> loader]]
    ELSE Append(lds, [kind |-> kind, loader |-> loader])

\* One turn of the for loop of register_manifest: row["id"], row["kind"] and
\* row.get("config", {}) are read in that order, then the component is stored.
RegisterRow(comps, row) ==
    IF "id" \notin row.keys
    THEN [raised |-> TRUE, key |-> "id", components |-> comps]
    ELSE IF "kind" \notin row.keys
    THEN [raised |-> TRUE, key |-> "kind", components |-> comps]
    ELSE [raised |-> FALSE, key |-> Absent,
          components |->
            PutComponent(comps,
                Component(row.id, row.kind,
                          IF "config" \in row.keys THEN row.config
                          ELSE EmptyConf))]

\* The for loop of register_manifest with the row that raises skipped
RECURSIVE RegisterRowsSkipping(_, _, _)
RegisterRowsSkipping(comps, rows, i) ==
    IF i > Len(rows)
    THEN [raised |-> FALSE, key |-> Absent, at |-> 0, components |-> comps]
    ELSE LET r == RegisterRow(comps, rows[i])
             rest == RegisterRowsSkipping(r.components, rows, i + 1)
         IN  IF r.raised /\ ~rest.raised
             THEN [raised |-> TRUE, key |-> r.key, at |-> i,
                   components |-> rest.components]
             ELSE rest

\* The for loop of register_manifest over rows[i..]: it ends at the first row
\* that raises, leaving what the rows before it stored.
RECURSIVE RegisterRows(_, _, _)
RegisterRows(comps, rows, i) ==
    IF i > Len(rows)
    THEN [raised |-> FALSE, key |-> Absent, at |-> 0, components |-> comps]
    ELSE LET r == RegisterRow(comps, rows[i])
         IN  IF r.raised
             THEN [raised |-> TRUE, key |-> r.key, at |-> i, components |-> comps]
             ELSE RegisterRows(r.components, rows, i + 1)

(***************************************************************************)
(* loaders/*.py                                                            *)
(*                                                                         *)
(* What a loader meets outside the program is its environment: the state   *)
(* of the file a path names, what the factory does when called, how the    *)
(* network answers.  build returns a dict (its keys, and the values the    *)
(* claims speak of) or lets an exception through.                          *)
(***************************************************************************)
FileStates == {"missing", "directory", "unreadable", "badyaml", "good"}
CallOutcomes == {"returns", "TypeError", "ValueError"}
NetOutcomes == {"URLError", "HTTPError", "TimeoutError", "json", "text",
                "undecodable"}

Returned(keys, uid, kind, call) ==
    [tag |-> "return", keys |-> keys, component |-> uid, kind |-> kind,
     exc |-> Absent, call |-> call]
Raised(exc) ==
    [tag |-> "raise", keys |-> {}, component |-> Absent, kind |-> Absent,
     exc |-> exc, call |-> Absent]

\* The modules import_module can find, each with the attributes getattr finds.
\* yaml_loader, python_loader and http_loader import BaseLoader by name.
ModuleAttrs(modpath) ==
    CASE modpath = <<"ankh_aten", "loaders", "yaml_loader">> ->
            {"YamlLoader", "BaseLoader"}
      [] modpath = <<"ankh_aten", "loaders", "python_loader">> ->
            {"PythonLoader", "BaseLoader"}
      [] modpath = <<"ankh_aten", "loaders", "http_loader">> ->
            {"HttpLoader", "BaseLoader"}
      [] modpath = <<"ankh_aten", "loaders", "base">> -> {"BaseLoader"}
      [] modpath = <<"builtins">> -> {"dict", "list", "int"}
      [] OTHER -> {}
ModuleExists(modpath) == ModuleAttrs(modpath) # {}

\* path.rsplit(".", 1) of a path of at least two segments
ModPath(path) == SubSeq(path, 1, Len(path) - 1)
LastName(path) == path[Len(path)]

\* BaseLoader.build
BaseBuild(c, env) == Raised("NotImplementedError")

\* YamlLoader.build.  Path("") is the current directory, which exists and
\* cannot be read as text; only yaml.YAMLError is caught.
YamlBuild(c, env) ==
    LET file == IF c.conf.path = Absent THEN "directory" ELSE env.file
    IN  CASE file = "missing" ->
                Returned({"error", "component", "kind", "config"}, c.uid,
                         "yaml", Absent)
          [] file = "directory" -> Raised("IsADirectoryError")
          [] file = "unreadable" -> Raised("PermissionError")
          [] file = "badyaml" ->
                Returned({"error", "component", "kind", "source"}, c.uid,
                         "yaml", Absent)
          [] OTHER ->
                Returned({"component", "kind", "data", "source"}, c.uid,
                         "yaml", Absent)

\* How PythonLoader.build calls the factory, by the shape of conf["args"]:
\* factory(**args), factory(*args, **kwargs) or factory(args, **kwargs).
FactoryCall(args, kwargs) ==
    CASE args \in {Absent, "dict"} ->
            [positional |-> "none", keywords |-> "args"]
      [] args = "list" ->
            [positional |-> "each of args",
             keywords |-> IF kwargs = Absent THEN "none" ELSE "kwargs"]
      [] OTHER ->
            [positional |-> "args",
             keywords |-> IF kwargs = Absent THEN "none" ELSE "kwargs"]

\* PythonLoader.build.  Inside the try: rsplit into two names (ValueError when
\* the path has no dot), import_module, getattr, the call; ImportError,
\* AttributeError and TypeError are caught, nothing else.
PythonBuild(c, env) ==
    LET fp == c.conf.factory
        call == FactoryCall(c.conf.args, c.conf.kwargs)
        failed == Returned({"error", "component", "kind", "factory"}, c.uid,
                           "python", Absent)
    IN  IF fp = <<>>
        THEN Returned({"error", "component", "kind"}, c.uid, "python", Absent)
        ELSE IF Len(fp) < 2 THEN Raised("ValueError")
        ELSE IF ~ModuleExists(ModPath(fp)) THEN failed
        ELSE IF LastName(fp) \notin ModuleAttrs(ModPath(fp)) THEN failed
        ELSE CASE env.call = "TypeError" -> failed
               [] env.call = "ValueError" -> Raised("ValueError")
               [] OTHER ->
                    Returned({"component", "kind", "factory", "result"},
                             c.uid, "python", call)

\* HttpLoader.build.  Request(url) raises ValueError for a url without a
\* scheme; URLError, HTTPError and TimeoutError are caught, nothing else; a
\* body that is not JSON is returned as text.
HttpBuild(c, env) ==
    LET url == c.conf.url
    IN  IF url = Absent
        THEN Returned({"error", "component", "kind"}, c.uid, "http", Absent)
        ELSE IF url = "no-scheme" THEN Raised("ValueError")
        ELSE CASE env.net \in {"URLError", "HTTPError", "TimeoutError"} ->
                    Returned({"error", "component", "kind", "url"}, c.uid,
                             "http", Absent)
               [] env.net = "undecodable" -> Raised("UnicodeDecodeError")
               [] OTHER ->
                    Returned({"component", "kind", "url", "status", "data"},
                             c.uid, "http", Absent)

\* L(c).build() for the class getattr found
Build(cls, c, env) ==
    CASE cls = "YamlLoader" -> YamlBuild(c, env)
      [] cls = "PythonLoader" -> PythonBuild(c, env)
      [] cls = "HttpLoader" -> HttpBuild(c, env)
      [] OTHER -> BaseBuild(c, env)

\* as if a kind without a binding fell back to the YAML loader
MaterializeDefaultLoader(comps, lds, uid, env) ==
    IF ~HasComponent(comps, uid)
    THEN [invoked |-> FALSE, res |-> Raised("KeyError")]
    ELSE [invoked |-> TRUE,
          res |-> Build("YamlLoader", GetComponent(comps, uid), env)]

\* Registry.materialize: the two dict lookups (KeyError), rsplit into two
\* names (ValueError), import_module (ImportError), getattr (AttributeError),
\* then the loader's build.  invoked says whether a loader's build ran.
Materialize(comps, lds, uid, env) ==
    IF ~HasComponent(comps, uid)
    THEN [invoked |-> FALSE, res |-> Raised("KeyError")]
    ELSE LET c == GetComponent(comps, uid)
         IN  IF ~HasLoader(lds, c.kind)
             THEN [invoked |-> FALSE, res |-> Raised("KeyError")]
             ELSE LET Lpath == GetLoader(lds, c.kind)
                  IN  IF Len(Lpath) < 2
                      THEN [invoked |-> FALSE, res |-> Raised("ValueError")]
                      ELSE IF ~ModuleExists(ModPath(Lpath))
                      THEN [invoked |-> FALSE, res |-> Raised("ImportError")]
                      ELSE IF LastName(Lpath) \notin ModuleAttrs(ModPath(Lpath))
                      THEN [invoked |-> FALSE,
                            res |-> Raised("AttributeError")]
                      ELSE [invoked |-> TRUE,
                            res |-> Build(LastName(Lpath), c, env)]

(***************************************************************************)
(* The registry's operations                                               *)
(***************************************************************************)
ConfYaml == [EmptyConf EXCEPT !.path = "test.yaml"]
ConfPython ==
    [EmptyConf EXCEPT !.factory = <<"builtins", "dict">>, !.args = "dict"]
ConfPythonList ==
    [EmptyConf EXCEPT !.factory = <<"builtins", "list">>, !.args = "list",
                      !.kwargs = "dict"]
ConfPythonNoDot == [EmptyConf EXCEPT !.factory = <<"create">>]
ConfPythonNoModule ==
    [EmptyConf EXCEPT !.factory = <<"test", "module", "create">>,
                      !.args = "dict"]
ConfHttp == [EmptyConf EXCEPT !.url = "https://example.com/api"]
ConfHttpNoScheme == [EmptyConf EXCEPT !.url = "no-scheme"]

\* A manifest row: a mapping with the keys it has (a key it lacks has no
\* value; the field then holds a placeholder nothing reads).
Row(id, kind, config) ==
    [keys |-> {"id", "kind", "config"}, id |-> id, kind |-> kind,
     config |-> config]
Without(row, key) == [row EXCEPT !.keys = @ \ {key}]

\* The manifest rows the registry is loaded from: the rows of the tests, a
\* row that gives an id again with another kind and no config, a row without
\* id and a row without kind.
RowPool ==
    { Row("TEST_YAML", "yaml", ConfYaml),
      Row("TEST_PYTHON", "python", ConfPythonNoModule),
      Row("TEST_HTTP", "http", ConfHttp),
      Without(Row("TEST_YAML", "structured-data", EmptyConf), "config"),
      Without(Row("", "yaml", ConfYaml), "id"),
      Without(Row("TEST_HTTP", "", ConfHttp), "kind") }

Manifests == UNION { [1..n -> RowPool] : n \in 0..MaxRows }

YamlLoaderPath == <<"ankh_aten", "loaders", "yaml_loader", "YamlLoader">>
PythonLoaderPath == <<"ankh_aten", "loaders", "python_loader", "PythonLoader">>
HttpLoaderPath == <<"ankh_aten", "loaders", "http_loader", "HttpLoader">>
BaseLoaderPath == <<"ankh_aten", "loaders", "base", "BaseLoader">>

\* The use(kind, loader) calls made of the registry: two of those of cli.py
\* and the tests, and a second loader for a kind.  The kinds python and
\* structured-data stay unbound.
UsePool ==
    { <<"yaml", YamlLoaderPath>>,
      <<"http", HttpLoaderPath>>,
      <<"yaml", HttpLoaderPath>> }

\* The environments a materialize call may meet
Envs ==
    { e \in [file : FileStates, call : CallOutcomes, net : NetOutcomes] :
        \/ e.call = "returns" /\ e.net = "json"
        \/ e.file = "good" /\ e.net = "json"
        \/ e.file = "good" /\ e.call = "returns" }

\* The configs a component may carry, field by field
AllConfs ==
    [path : {Absent, "test.yaml"},
     factory : {<<>>, <<"create">>, <<"builtins", "dict">>,
                <<"builtins", "missing">>, <<"test", "module", "create">>},
     args : {Absent, "dict", "list", "scalar"},
     kwargs : {Absent, "dict"},
     url : {Absent, "no-scheme", "https://example.com/api"}]

\* The rows of a manifest register_manifest gets to store: those before the
\* first row without id or kind.
Malformed(row) == ~({"id", "kind"} \subseteq row.keys)
Processed(rows) ==
    LET bad == { i \in DOMAIN rows : Malformed(rows[i]) }
        n == IF bad = {} THEN Len(rows)
             ELSE (CHOOSE i \in bad : \A j \in bad : i <= j) - 1
    IN  SubSeq(rows, 1, n)

\* The ids stored so far, and for each the kind and config last given
HistRegister(h, rows) ==
    LET done == Processed(rows)
        ids == { done[i].id : i \in DOMAIN done }
        lastOf(id) ==
            LET k == CHOOSE i \in DOMAIN done :
                        /\ done[i].id = id
                        /\ \A j \in DOMAIN done : done[j].id = id => j <= i
            IN  Component(id, done[k].kind,
                          IF "config" \in done[k].keys THEN done[k].config
                          ELSE EmptyConf)
    IN  [h EXCEPT !.rows = IF h.keepRows THEN rows ELSE <<>>,
                  !.registered = @ \cup ids,
                  !.latest = { c \in @ : c.uid \notin ids }
                                \cup { lastOf(id) : id \in ids }]

\* Registry.use(kind, loader)
Use(kind, loader) ==
    /\ ~run.active
    /\ loaders' = PutLoader(loaders, kind, loader)
    /\ ret' = [op |-> "use", kind |-> kind, loader |-> loader]
    /\ UNCHANGED <<components, I, writers, loopVars, hist>>

\* Registry.register_manifest(path), rows being the "components" of the file
RegisterManifest(rows) ==
    /\ ~run.active
    /\ \E r \in { RegisterRows(components, rows, 1) } :
           /\ components' = r.components
           /\ ret' = [op |-> "register_manifest", raised |-> r.raised,
                      exc |-> IF r.raised THEN "KeyError" ELSE Absent,
                      error |-> IF r.raised
                                THEN [exc |-> "KeyError", key |-> r.key]
                                ELSE [exc |-> Absent],
                      key |-> r.key, at |-> r.at, n |-> Len(rows),
                      wasEmpty |-> (components = <<>>),
                      wellFormed |-> (\A i \in DOMAIN rows : ~Malformed(rows[i])),
                      distinct |-> (\A i, j \in DOMAIN rows :
                                        rows[i].id = rows[j].id => i = j)]
    /\ hist' = HistRegister(hist, rows)
    /\ UNCHANGED <<loaders, I, writers, loopVars>>

\* Registry.component_count()
ComponentCount == Len(components)

\* Registry.materialize(uid)
MaterializeCall(uid, env) ==
    /\ ~run.active
    /\ UNCHANGED <<components, loaders>>
    /\ \E m \in { Materialize(components, loaders, uid, env) } :
           ret' = [op |-> "materialize", uid |-> uid, invoked |-> m.invoked,
                   res |-> m.res, known |-> HasComponent(components, uid),
                   bound |-> (HasComponent(components, uid)
                                /\ HasLoader(loaders,
                                        GetComponent(components, uid).kind)),
                   changed |-> (components' # components
                                    \/ loaders' # loaders)]
    /\ UNCHANGED <<I, writers, loopVars, hist>>

(***************************************************************************)
(* metrics.py                                                              *)
(*                                                                         *)
(* Fixed point: SCALE units per 1.0, products and quotients rounded to the *)
(* nearest unit.  x ** (num/den) is the least y with y**den >= x**num.     *)
(***************************************************************************)
SCALE == 10000
P == 16180              \* 1.618033988749895
S == 10000              \* 1.0
TH == 9777              \* 0.9777
SourceI == <<85, 62, 65, 78, 100, 100, 100, 100, 100, 95, 100, 100>>
T_DEFAULT == 9980       \* rd's default t = 0.998
C_DEFAULT == 9990       \* rd's default c = 0.999
D_DEFAULT == 2          \* rd's default d = 0.00023

FMul(a, b) == (a * b + SCALE \div 2) \div SCALE
FDiv(a, b) == (a * SCALE + b \div 2) \div b

\* x ** k for a natural k
RECURSIVE IPow(_, _)
IPow(x, k) == IF k = 0 THEN SCALE ELSE FMul(IPow(x, k - 1), x)

\* the least y in lo..hi with y ** den >= t, by bisection
RECURSIVE Root(_, _, _, _)
Root(lo, hi, t, den) ==
    IF lo >= hi THEN lo
    ELSE LET mid == (lo + hi) \div 2
         IN  IF IPow(mid, den) >= t THEN Root(lo, mid, t, den)
             ELSE Root(mid + 1, hi, t, den)

\* x ** (num/den) for x in [0, 1]
Pow(x, num, den) == Root(0, SCALE, IPow(x, num), den)

\* max(0, min(1, x))
Clamp(x) == Max(0, Min(SCALE, x))

\* ps without the subtraction from 1: the compressed distance itself
ps_inverted(x, n) == Clamp(FDiv(SCALE - Clamp(x), IPow(P, n)))

\* ps(x, n) = max(0, min(1, 1 - (1 - x) / P**n)) of the clamped x
ps(x, n) == Clamp(SCALE - FDiv(SCALE - Clamp(x), IPow(P, n)))

\* rd with the decay added to 1 in the place of subtracted from it
rd_growing(p, t, c, d) ==
    FMul(FMul(FMul(FMul(S, ps(Pow(p, 1, 2), 3)), ps(Pow(t, 3, 10), 3)),
              ps(Pow(c, 1, 5), 3)),
         SCALE + d)

\* rd(p, t, c, d) = S * ps(p**0.5) * ps(t**0.3) * ps(c**0.2) * (1 - d)
rd(p, t, c, d) ==
    FMul(FMul(FMul(FMul(S, ps(Pow(p, 1, 2), 3)), ps(Pow(t, 3, 10), 3)),
              ps(Pow(c, 1, 5), 3)),
         SCALE - d)

RECURSIVE SumSeq(_)
SumSeq(q) == IF q = <<>> THEN 0 ELSE Head(q) + SumSeq(Tail(q))

\* The integration vectors a loop is run with: the one of metrics.py, one of
\* full awareness (fitness above the stop threshold) and one of half
\* awareness (fitness below the gate)
AwarenessVectors ==
    { SourceI, [i \in 1..12 |-> 100], [i \in 1..12 |-> 50] }

\* An integration vector of a given sum: full entries, one partial entry,
\* then empty ones
VectorOfSum(total) ==
    [i \in 1..12 |->
        IF i <= total \div 100 THEN 100
        ELSE IF i = total \div 100 + 1 THEN total % 100 ELSE 0]

\* Integration vectors whose fitness lies just below, at and just above the
\* gate threshold
GateVectors == { VectorOfSum(total) : total \in 984..989 }

\* snapshot(): a = sum(I) / (100 * len(I)), r = rd(a), g = int(r >= TH); the
\* fields t and d, which only read the clock, are left out.
SnapshotOf(vec) ==
    LET a == (SumSeq(vec) * SCALE) \div (100 * Len(vec))
        r == rd(a, T_DEFAULT, C_DEFAULT, D_DEFAULT)
    IN  [a |-> a * 100, r |-> r, g |-> IF r >= TH THEN 1 ELSE 0]

\* snapshot() is a function of I alone: its values, computed once
SnapshotTable ==
    [vec \in AwarenessVectors \cup GateVectors |-> SnapshotOf(vec)]

snapshot(vec) == SnapshotTable[vec]

\* P ** n is a float: from this n on the power exceeds the largest double
\* and ** raises OverflowError
OverflowDepth == 1475

\* P ** n raises
PowRaises(n) == n >= OverflowDepth

\* metrics.ps(x, n), on the arguments the program was started with: the
\* value, or the exception of P ** n
PsCall ==
    /\ ret.op = "init"
    /\ ret' = IF PowRaises(ret.n)
              THEN [op |-> "ps", x |-> ret.x, n |-> ret.n, raised |-> TRUE,
                    exc |-> "OverflowError", out |-> 0]
              ELSE [op |-> "ps", x |-> ret.x, n |-> ret.n, raised |-> FALSE,
                    exc |-> Absent, out |-> ps(ret.x, ret.n)]
    /\ UNCHANGED <<components, loaders, I, writers, loopVars, hist>>

\* metrics.rd(p, t, c, d), on the arguments the program was started with
RdCall ==
    /\ ret.op = "init"
    /\ ret' = [op |-> "rd", p |-> ret.p, t |-> ret.t, c |-> ret.c,
               d |-> ret.d, out |-> rd(ret.p, ret.t, ret.c, ret.d)]
    /\ UNCHANGED <<components, loaders, I, writers, loopVars, hist>>

\* snapshot(now), the clock being read in whole days counted from the omega
\* point O: d = max(0, (O - n).total_seconds() / 86400), and a, r, g as
\* snapshot() computes them; the field t, the clock's text, is left out.
DaysToOmega(now) == Max(0, 0 - now)

\* snapshot(now) whose fitness loses one unit per day past the omega point
snapshot_decaying(vec, now) ==
    [a |-> snapshot(vec).a, r |-> snapshot(vec).r - Max(0, now),
     g |-> IF snapshot(vec).r - Max(0, now) >= TH THEN 1 ELSE 0,
     d |-> DaysToOmega(now)]

snapshot_at(vec, now) ==
    [a |-> snapshot(vec).a, r |-> snapshot(vec).r, g |-> snapshot(vec).g,
     d |-> DaysToOmega(now)]

\* metrics.snapshot(now), called by a client of the module
SnapshotAtCall(now) ==
    /\ ~run.active
    /\ ret' = [op |-> "snapshot_at", now |-> now, out |-> snapshot_at(I, now)]
    /\ UNCHANGED <<components, loaders, I, writers, loopVars, hist>>

\* metrics.snapshot()
SnapshotCall ==
    /\ ret' = [op |-> "snapshot", out |-> snapshot(I)]
    /\ UNCHANGED <<components, loaders, I, writers, loopVars, hist>>

(***************************************************************************)
(* backend/app/psietr_engine.py                                            *)
(***************************************************************************)
RDOD_THRESHOLD == 9777          \* constants.RDOD_THRESHOLD = 0.9777

\* The gate test made with > in the place of >=
get_gate_status_strict(rdod) ==
    IF rdod > RDOD_THRESHOLD THEN "OPEN" ELSE "CLOSED"

\* return "OPEN" if rdod >= RDOD_THRESHOLD else "CLOSED"
get_gate_status(rdod) ==
    IF rdod >= RDOD_THRESHOLD THEN "OPEN" ELSE "CLOSED"

\* psietr_engine.get_gate_status(rdod)
GateStatusCall(rdod) ==
    /\ ret' = [op |-> "get_gate_status", rdod |-> rdod,
               out |-> get_gate_status(rdod)]
    /\ UNCHANGED <<components, loaders, I, writers, loopVars, hist>>

(***************************************************************************)
(* backend/app: the five implementations of phi-smoothing                  *)
(*                                                                         *)
(* Each returns an outcome: a value, or the exception it lets escape.      *)
(***************************************************************************)
Value(v) == [raised |-> FALSE, exc |-> Absent, out |-> v]
Escaped(exc) == [raised |-> TRUE, exc |-> exc, out |-> 0]

\* x' = 1 - (1 - x) / PHI
PhiStep(x) == SCALE - FDiv(SCALE - x, P)

\* for _ in range(n): x = 1.0 - (1.0 - x) / PHI.  A turn that leaves x as it
\* is ends the computation: every later turn leaves it so too.
RECURSIVE PhiLoop(_, _)
PhiLoop(x, n) ==
    IF n <= 0 THEN x
    ELSE IF PhiStep(x) = x THEN x
    ELSE PhiLoop(PhiStep(x), n - 1)

\* psietr_engine.phi_smooth(x, iterations): clamp, loop, clamp
phi_smooth(x, iterations) == Value(Clamp(PhiLoop(Clamp(x), iterations)))

\* psietr_compact.ps(x, n): the closed form, with its P ** n
compact_ps(x, n) ==
    IF PowRaises(n) THEN Escaped("OverflowError") ELSE Value(ps(x, n))

\* The recursion limit of the interpreter (1000 unless the embedding
\* program sets another): a recursion this deep may exceed it
RecursionLimit == 1000
RecursionOutcomes(n) ==
    IF n < RecursionLimit THEN {"returns"}
    ELSE {"returns", "RecursionError"}

\* phi_smooth_recursive(x, n): clamp, then the step and the call of itself
RECURSIVE RecursiveValue(_, _)
RecursiveValue(x, n) ==
    IF n <= 0 THEN Clamp(x)
    ELSE IF PhiStep(Clamp(x)) = x THEN x
    ELSE RecursiveValue(PhiStep(Clamp(x)), n - 1)

phi_smooth_recursive(x, n, stack) ==
    IF stack = "RecursionError" THEN Escaped("RecursionError")
    ELSE Value(RecursiveValue(x, n))

\* phi_smooth_lambda(x, n): the lambda ps(v, depth) calling itself, the
\* clamp written out at both of its uses
RECURSIVE LambdaValue(_, _)
LambdaValue(v, depth) ==
    IF depth <= 0 THEN Max(0, Min(SCALE, v))
    ELSE IF PhiStep(Max(0, Min(SCALE, v))) = v THEN v
    ELSE LambdaValue(PhiStep(Max(0, Min(SCALE, v))), depth - 1)

phi_smooth_lambda(x, n, stack) ==
    IF stack = "RecursionError" THEN Escaped("RecursionError")
    ELSE Value(LambdaValue(x, n))

\* phi_smooth_iterative(x, n): clamp, loop, clamp
phi_smooth_iterative(x, n) == Value(Clamp(PhiLoop(Clamp(x), n)))

\* validate_phi_smoothing_equivalence's five calls, on the arguments the
\* program was started with
SmoothCall ==
    /\ ret.op = "init"
    /\ \E stack \in RecursionOutcomes(ret.n) :
        ret' = [op |-> "smooth", x |-> ret.x, n |-> ret.n,
                verbose |-> phi_smooth(ret.x, ret.n),
                compact |-> compact_ps(ret.x, ret.n),
                recursive |-> phi_smooth_recursive(ret.x, ret.n, stack),
                lambda |-> phi_smooth_lambda(ret.x, ret.n, stack),
                iterative |-> phi_smooth_iterative(ret.x, ret.n)]
    /\ UNCHANGED <<components, loaders, I, writers, loopVars, hist>>

(***************************************************************************)
(* backend/app/duality.py: the validations of the verbose implementation   *)
(* (psietr_engine) against the compact one (psietr_compact)                *)
(***************************************************************************)
SIGMA == 10000                  \* constants.SIGMA = 1.0
TAU == 12                       \* constants.TAU = 12.0 days

\* psietr_compact.I
CompactI == <<85, 62, 65, 78, 100, 100, 100, 100, 100, 95, 100, 100>>

\* The integration_pct of the streams of FREQUENCY_STREAMS, as the module
\* is loaded.  The list and its FrequencyStream objects are mutable.
SourceStreams == <<85, 62, 65, 78, 100, 100, 100, 100, 100, 95, 100, 100>>

\* The values demonstrate_phi_duality validates: 0.5, 0.85, 0.95
TestValues == {5000, 8500, 9500}

\* diff < tolerance.  The tolerances of the validations (1e-9, 1e-6) lie
\* above the rounding of the program's floats (1e-16) and below the least
\* difference its data can make (one point of one stream: 8.3e-4 of the
\* average).  The numbers of the model round at 1/SCALE, so the tolerance
\* is placed above that rounding (one unit at each multiplication) and
\* below the same least difference (8 units of the average).
Tolerance == 3
Within(v, c) == (IF v >= c THEN v - c ELSE c - v) < Tolerance

\* phi_power_smooth(psi, exponent): phi_smooth(max(0.0, psi) ** exponent)
phi_power_smooth(psi, num, den) ==
    phi_smooth(Pow(Max(0, psi), num, den), 3).out

\* calculate_rdod(psi, tests_pass_rate, confirmation_rate, distortion)
calculate_rdod(psi, tests_pass_rate, confirmation_rate, distortion) ==
    FMul(FMul(FMul(FMul(SIGMA, phi_power_smooth(psi, 1, 2)),
                   phi_power_smooth(tests_pass_rate, 3, 10)),
              phi_power_smooth(confirmation_rate, 1, 5)),
         SCALE - distortion)

\* get_stream_integration_average(): the mean of the integration ratios
get_stream_integration_average(streams) ==
    IF streams = <<>> THEN 0
    ELSE (SumSeq(streams) * SCALE) \div (100 * Len(streams))

\* ae_convergence(t_days): its factor PHI ** (t_days / TAU) raises as P ** n
\* does; its value is in no field the validations read
ae_convergence_raises(t_days) == PowRaises(t_days \div TAU)

\* generate_convergence_package(now), FREQUENCY_STREAMS holding streams: the
\* fields the validation reads, or the exception of ae_convergence
generate_convergence_package(streams, now) ==
    LET dt == DaysToOmega(now)
        avg_psi == get_stream_integration_average(streams)
        rdod == calculate_rdod(avg_psi, T_DEFAULT, C_DEFAULT, D_DEFAULT)
    IN  IF ae_convergence_raises(dt) THEN Escaped("OverflowError")
        ELSE Value([days_to_omega |-> dt, avg_integration_pct |-> avg_psi * 100,
                    rdod |-> rdod, gate |-> get_gate_status(rdod)])

\* psietr_compact.rd(p), t, c and d at their defaults
compact_rd(p) == rd(p, T_DEFAULT, C_DEFAULT, D_DEFAULT)

\* psietr_compact.pack(n), without its field t, the clock's text
pack(n) ==
    LET a == (SumSeq(CompactI) * SCALE) \div (100 * Len(CompactI))
        r == compact_rd(a)
    IN  [d |-> DaysToOmega(n), a |-> a * 100, r |-> r,
         g |-> IF r >= TH THEN 1 ELSE 0]

\* validate_phi_smoothing_equivalence(x, n): every implementation within
\* the tolerance of the verbose one
validate_phi_smoothing_equivalence(x, n) ==
    \A result \in { phi_smooth(x, n), compact_ps(x, n),
                    phi_smooth_recursive(x, n, "returns"),
                    phi_smooth_lambda(x, n, "returns"),
                    phi_smooth_iterative(x, n) } :
        Within(result.out, phi_smooth(x, n).out)

\* validate_rdod_equivalence(psi)
validate_rdod_equivalence(psi) ==
    Within(calculate_rdod(psi, T_DEFAULT, C_DEFAULT, D_DEFAULT),
           compact_rd(psi))

\* validate_convergence_package_equivalence(now): days, avg_pct, rdod and
\* gate of the two packages within the tolerance, or the exception of the
\* verbose package
validate_convergence_package_equivalence(streams, now) ==
    LET pkg_verbose == generate_convergence_package(streams, now)
        pkg_compact == pack(now)
    IN  IF pkg_verbose.raised THEN pkg_verbose
        ELSE Value(/\ Within(pkg_verbose.out.days_to_omega, pkg_compact.d)
                   /\ Within(pkg_verbose.out.avg_integration_pct,
                             pkg_compact.a)
                   /\ Within(pkg_verbose.out.rdod, pkg_compact.r)
                   /\ Within(IF pkg_verbose.out.gate = "OPEN" THEN 1 ELSE 0,
                             pkg_compact.g))

\* demonstrate_phi_duality(): the verdicts of its validations, which it
\* prints and does not return
demonstrate_phi_duality ==
    \A x \in TestValues : validate_phi_smoothing_equivalence(x, 3)

\* demonstrate_rdod_duality(): the verdict on the average of compact.I
demonstrate_rdod_duality ==
    validate_rdod_equivalence(
        (SumSeq(CompactI) * SCALE) \div (100 * Len(CompactI)))

\* demonstrate_package_duality(): the verdict on the packages of the clock
demonstrate_package_duality(streams, now) ==
    validate_convergence_package_equivalence(streams, now)

\* run_all_validations(): all_passed = True, the four demonstrations, return
\* all_passed.  No demonstration returns a verdict and nothing assigns
\* all_passed again; an exception of a demonstration escapes.
run_all_validations(streams, now) ==
    IF demonstrate_package_duality(streams, now).raised
    THEN demonstrate_package_duality(streams, now)
    ELSE Value(TRUE)

\* main(): sys.exit(0 if success else 1); an exception that escapes ends
\* the interpreter with status 1
main(outcome) ==
    IF outcome.raised THEN 1 ELSE IF outcome.out THEN 0 ELSE 1

\* python -m app.duality, the streams and the clock being those the program
\* was started with: the verdicts reached on the way, what
\* run_all_validations returns and the status main exits with
RunAllValidationsCall ==
    /\ ret.op = "init"
    /\ \E package \in { demonstrate_package_duality(ret.streams, ret.now) },
          outcome \in { run_all_validations(ret.streams, ret.now) } :
        ret' = [op |-> "run_all_validations", streams |-> ret.streams,
                now |-> ret.now,
                phi |-> demonstrate_phi_duality,
                rdod |-> demonstrate_rdod_duality,
                package |-> package,
                raised |-> outcome.raised, exc |-> outcome.exc,
                out |-> outcome.out, status |-> main(outcome)]
    /\ UNCHANGED <<components, loaders, I, writers, loopVars, hist>>

(***************************************************************************)
(* self_improve/loop.py                                                    *)
(*                                                                         *)
(* The loop's fields are held in a record st while a method runs; each     *)
(* method is an operator from st (and its arguments) to the st it leaves   *)
(* and the value it returns.                                               *)
(***************************************************************************)
MinGate == 9777                 \* POLICIES["min_gate"] = 0.9777
ExperimentsPerCycle == 3        \* POLICIES["experiments_per_cycle"]
RollforwardThreshold == 20      \* POLICIES["rollforward_threshold"] = 0.002
StopThreshold == 9990           \* run: snap["r"] >= 0.999

LoopState ==
    [cycle_count |-> cycle_count, total_experiments |-> total_experiments,
     improvements |-> improvements, log |-> log]

\* log_event that writes its record at the head of the file
log_event_prepending(st, event_type, data) ==
    [st EXCEPT !.log = << [cycle |-> st.cycle_count,
                           type |-> event_type, data |-> data] >> \o @]

\* log_event with the file opened for writing, not for appending
log_event_truncating(st, event_type, data) ==
    [st EXCEPT !.log = << [cycle |-> st.cycle_count,
                           type |-> event_type, data |-> data] >>]

\* log_event(event_type, data): one record at the end of the file, tagged
\* with the cycle count of the moment (the timestamp is left out)
log_event(st, event_type, data) ==
    [st EXCEPT !.log = Append(@, [cycle |-> st.cycle_count,
                                  type |-> event_type, data |-> data])]

\* reflect() that counts itself as a cycle
reflect_counting(st, vec, ncomponents) ==
    LET snap == snapshot(vec)
    IN  [st |-> log_event([st EXCEPT !.cycle_count = @ + 1], "reflect",
                    [r_dod |-> snap.r, awareness |-> snap.a,
                     gate_status |-> snap.g, components |-> ncomponents]),
         out |-> snap]

\* reflect()
reflect(st, vec, ncomponents) ==
    LET snap == snapshot(vec)
    IN  [st |-> log_event(st, "reflect",
                    [r_dod |-> snap.r, awareness |-> snap.a,
                     gate_status |-> snap.g, components |-> ncomponents]),
         out |-> snap]

Experiment(type, description, expected_gain) ==
    [type |-> type, description |-> description,
     expected_gain |-> expected_gain]

BelowGateSet ==
    << Experiment("expand_manifest",
                  "Add high-value components to manifest", 30),
       Experiment("optimize_loaders",
                  "Tune loader performance and caching", 20),
       Experiment("refine_metrics", "Adjust phi-scaling parameters", 10) >>

AboveGateSet ==
    << Experiment("discover_components",
                  "Search for new quantum-coherent components", 20),
       Experiment("tune_awareness",
                  "Balance integration vector dimensions", 10),
       Experiment("cache_optimization",
                  "Implement component materialization cache", 10) >>

\* experiments[:n]
Take(q, n) == SubSeq(q, 1, Min(Len(q), n))

\* plan(snap) with the gate test r_current <= min_gate
plan_inclusive(st, snap) ==
    LET r_current == snap.r
        gate_needed == MinGate - r_current
        experiments ==
            Take(IF r_current <= MinGate THEN BelowGateSet ELSE AboveGateSet,
                 ExperimentsPerCycle)
    IN  [st |-> log_event(st, "plan",
                    [gate_needed |-> Max(0, gate_needed),
                     experiments |-> Len(experiments),
                     experiment_types |->
                        [i \in DOMAIN experiments |-> experiments[i].type]]),
         out |-> experiments]

\* plan(snap)
plan(st, snap) ==
    LET r_current == snap.r
        gate_needed == MinGate - r_current
        experiments ==
            Take(IF r_current < MinGate THEN BelowGateSet ELSE AboveGateSet,
                 ExperimentsPerCycle)
    IN  [st |-> log_event(st, "plan",
                    [gate_needed |-> Max(0, gate_needed),
                     experiments |-> Len(experiments),
                     experiment_types |->
                        [i \in DOMAIN experiments |-> experiments[i].type]]),
         out |-> experiments]

\* a draw from random.uniform(0, expected_gain * 2)
GainCeilingDouble(expected_gain) == expected_gain * 2

\* the largest value random.uniform(0, expected_gain * 1.5) can give
GainCeiling(expected_gain) == (expected_gain * 3) \div 2

\* act(experiments) with results.insert(0, result) in the place of
\* results.append(result)
RECURSIVE act_reversed(_, _, _)
act_reversed(st, experiments, gains) ==
    IF experiments = <<>> THEN [st |-> st, out |-> <<>>]
    ELSE LET exp == Head(experiments)
             result == [type |-> exp.type, description |-> exp.description,
                        executed |-> TRUE, actual_gain |-> Head(gains)]
             rest == act_reversed(log_event(st, "act", result),
                                  Tail(experiments), Tail(gains))
         IN  [st |-> rest.st, out |-> rest.out \o <<result>>]

\* act(experiments), gains[i] being what random.uniform gave for the i-th
RECURSIVE act(_, _, _)
act(st, experiments, gains) ==
    IF experiments = <<>> THEN [st |-> st, out |-> <<>>]
    ELSE LET exp == Head(experiments)
             result == [type |-> exp.type, description |-> exp.description,
                        executed |-> TRUE, actual_gain |-> Head(gains)]
             rest == act(log_event(st, "act", result), Tail(experiments),
                         Tail(gains))
         IN  [st |-> rest.st, out |-> <<result>> \o rest.out]

\* if result["actual_gain"] > threshold, read with the wrong comparison
KeepStrict(result) == result.actual_gain > RollforwardThreshold

\* if result["actual_gain"] >= self.POLICIES["rollforward_threshold"]
Keep(result) == result.actual_gain >= RollforwardThreshold

\* The for loop of learn over results[i..]: kept, rejected and
\* self.improvements as the loop leaves them
RECURSIVE LearnLoop(_, _, _, _, _)
LearnLoop(results, i, kept, rejected, impr) ==
    IF i > Len(results)
    THEN [kept |-> kept, rejected |-> rejected, improvements |-> impr]
    ELSE IF Keep(results[i])
    THEN LearnLoop(results, i + 1, Append(kept, results[i]), rejected,
                   impr + 1)
    ELSE LearnLoop(results, i + 1, kept, Append(rejected, results[i]), impr)

\* learn(results, snap_before)
learn(st, results, snap_before, vec) ==
    LET snap_after == snapshot(vec)
        r_gain == snap_after.r - snap_before.r
        loop == LearnLoop(results, 1, <<>>, <<>>, st.improvements)
        summary == [r_before |-> snap_before.r, r_after |-> snap_after.r,
                    r_gain |-> r_gain, kept |-> Len(loop.kept),
                    rejected |-> Len(loop.rejected),
                    improvements |-> loop.improvements]
    IN  [st |-> log_event([st EXCEPT !.improvements = loop.improvements],
                          "learn", summary),
         out |-> summary, kept |-> loop.kept, rejected |-> loop.rejected]

\* run_cycle without its self.cycle_count += 1
begin_cycle_uncounted(st) == st

\* run_cycle: self.cycle_count += 1
begin_cycle(st) == [st EXCEPT !.cycle_count = @ + 1]

\* run_cycle: self.total_experiments += len(results), and the same counting
\* one experiment per cycle
count_experiments_once(st, results) ==
    [st EXCEPT !.total_experiments = @ + 1]

count_experiments(st, results) ==
    [st EXCEPT !.total_experiments = @ + Len(results)]

(***************************************************************************)
(* The loop's operations                                                   *)
(***************************************************************************)
\* What random.uniform(0, ceiling) is taken to give: the ends of its range
\* and the two values around the rollforward threshold
GainSamples(expected_gain) ==
    { g \in {0, RollforwardThreshold - 1, RollforwardThreshold,
             GainCeiling(expected_gain)} : g <= GainCeiling(expected_gain) }

\* Inside a cycle: the values around the rollforward threshold, or the
\* ceiling when it is below them
CycleGainSamples(expected_gain) ==
    { Min(RollforwardThreshold - 1, GainCeiling(expected_gain)),
      Min(RollforwardThreshold, GainCeiling(expected_gain)) }

\* One gain per experiment
RECURSIVE CycleGainChoices(_)
CycleGainChoices(experiments) ==
    IF experiments = <<>> THEN { <<>> }
    ELSE { <<g>> \o rest :
            g \in CycleGainSamples(Head(experiments).expected_gain),
            rest \in CycleGainChoices(Tail(experiments)) }

\* A direct call of act: the first gain from the whole range
PhaseGainChoices(experiments) ==
    IF experiments = <<>> THEN { <<>> }
    ELSE { <<g>> \o rest :
            g \in GainSamples(Head(experiments).expected_gain),
            rest \in CycleGainChoices(Tail(experiments)) }

\* The experiments the next cycle's plan will choose
PlannedNow == plan(LoopState, snapshot(I)).out

Result(exp, gain) ==
    [type |-> exp.type, description |-> exp.description, executed |-> TRUE,
     actual_gain |-> gain]

\* A snapshot dict with a given fitness, as a caller of plan or learn may
\* pass one
SnapOf(r) == [a |-> 0, r |-> r, g |-> IF r >= TH THEN 1 ELSE 0]

SetLoop(st) ==
    /\ cycle_count' = st.cycle_count
    /\ total_experiments' = st.total_experiments
    /\ improvements' = st.improvements
    /\ log' = st.log

NoRun ==
    [active |-> FALSE, max |-> 0, i |-> 0, done |-> FALSE, startCycle |-> 0,
     startTotal |-> 0, startImprovements |-> 0, broke |-> FALSE]

\* loop.reflect(), called directly
ReflectCall ==
    /\ ~run.active
    /\ LET c == reflect(LoopState, I, ComponentCount)
       IN  /\ SetLoop(c.st)
           /\ ret' = [op |-> "reflect", out |-> c.out]
    /\ hist' = [hist EXCEPT !.direct = @ + 1]
    /\ UNCHANGED <<components, loaders, I, writers, run>>

\* loop.plan(snap), called directly
PlanCall(snap) ==
    /\ ~run.active
    /\ LET c == plan(LoopState, snap)
       IN  /\ SetLoop(c.st)
           /\ ret' = [op |-> "plan", r |-> snap.r, out |-> c.out]
           /\ hist' = [hist EXCEPT !.direct = @ + 1,
                                   !.planned = @ + Len(c.out)]
    /\ UNCHANGED <<components, loaders, I, writers, run>>

\* loop.act(experiments), called directly
ActCall(experiments, gains) ==
    /\ ~run.active
    /\ LET c == act(LoopState, experiments, gains)
       IN  /\ SetLoop(c.st)
           /\ ret' = [op |-> "act", experiments |-> experiments,
                      out |-> c.out, logBefore |-> Len(log)]
    /\ hist' = [hist EXCEPT !.direct = @ + 1]
    /\ UNCHANGED <<components, loaders, I, writers, run>>

\* loop.learn(results, snap_before), called directly
LearnCall(results, snap_before) ==
    /\ ~run.active
    /\ LET c == learn(LoopState, results, snap_before, I)
       IN  /\ SetLoop(c.st)
           /\ ret' = [op |-> "learn", results |-> results,
                      r_before |-> snap_before.r, out |-> c.out,
                      kept |-> c.kept, rejected |-> c.rejected,
                      improvementsBefore |-> improvements]
    /\ hist' = [hist EXCEPT !.direct = @ + 1]
    /\ UNCHANGED <<components, loaders, I, writers, run>>

\* The environment in which every well-configured component builds
GoodEnv == [file |-> "good", call |-> "returns", net |-> "json"]

\* materialize(uid) raises, or returns an error payload, in GoodEnv
FailsToLoad(comps, lds, uid) ==
    LET m == Materialize(comps, lds, uid, GoodEnv)
    IN  m.res.tag = "raise" \/ "error" \in m.res.keys

\* A run_cycle whose reflect materializes every component first and lets
\* the first failure escape: the cycle is counted and nothing else is done
DoRunCycleMaterializing(gains, inRun) ==
    IF \E i \in DOMAIN components :
            FailsToLoad(components, loaders, components[i].uid)
    THEN /\ SetLoop(begin_cycle(LoopState))
         /\ ret' = [op |-> "run_cycle", out |-> [raised |-> "KeyError"],
                    inRun |-> inRun,
                    logBefore |-> Len(log), cycleBefore |-> cycle_count,
                    planned |-> 0, improvementsBefore |-> improvements]
         /\ hist' = hist
    ELSE
    \E r1 \in { reflect(begin_cycle(LoopState), I, ComponentCount) } :
    \E r2 \in { plan(r1.st, r1.out) } :
    \E r3 \in { act(r2.st, r2.out, gains) } :
    \E r4 \in { learn(count_experiments(r3.st, r3.out), r3.out, r1.out, I) } :
        /\ SetLoop(r4.st)
        /\ ret' = [op |-> "run_cycle",
                   out |-> [cycle |-> r4.st.cycle_count,
                            experiments |-> Len(r2.out),
                            r_gain |-> r4.out.r_gain,
                            improvements |-> r4.out.improvements],
                   inRun |-> inRun,
                   logBefore |-> Len(log), cycleBefore |-> cycle_count,
                   planned |-> Len(r2.out),
                   improvementsBefore |-> improvements]
        /\ hist' = [hist EXCEPT !.cycles = @ + 1,
                                !.planned = @ + Len(r2.out),
                                !.plannedInCycles = @ + Len(r2.out)]

\* One execution of run_cycle, called directly (inRun = FALSE) or by run:
\* the count of the cycle, then reflect, plan, act, the count of the
\* experiments and learn, each on what the one before it left
DoRunCycle(gains, inRun) ==
    \E r1 \in { reflect(begin_cycle(LoopState), I, ComponentCount) } :
    \E r2 \in { plan(r1.st, r1.out) } :
    \E r3 \in { act(r2.st, r2.out, gains) } :
    \E r4 \in { learn(count_experiments(r3.st, r3.out), r3.out, r1.out, I) } :
        /\ SetLoop(r4.st)
        /\ ret' = [op |-> "run_cycle",
                   out |-> [cycle |-> r4.st.cycle_count,
                            experiments |-> Len(r2.out),
                            r_gain |-> r4.out.r_gain,
                            improvements |-> r4.out.improvements],
                   inRun |-> inRun,
                   logBefore |-> Len(log), cycleBefore |-> cycle_count,
                   planned |-> Len(r2.out),
                   improvementsBefore |-> improvements]
        /\ hist' = [hist EXCEPT !.cycles = @ + 1,
                                !.planned = @ + Len(r2.out),
                                !.plannedInCycles = @ + Len(r2.out)]

\* loop.run_cycle(), called directly
RunCycleCall ==
    /\ ~run.active
    /\ cycle_count < MaxCycles
    /\ \E gains \in CycleGainChoices(PlannedNow) : DoRunCycle(gains, FALSE)
    /\ UNCHANGED <<components, loaders, I, writers, run>>

\* The stop test of run made with the gate threshold of plan
StopTestGate(snap) == snap.r >= MinGate

\* if snap["r"] >= 0.999: break
StopTest(snap) == snap.r >= StopThreshold

\* range(max_cycles - 1) in the place of range(max_cycles)
ExhaustedEarly(i, max_cycles) == i >= max_cycles - 1

\* for cycle in range(max_cycles): the range is used up after i turns
Exhausted(i, max_cycles) == i >= max_cycles

\* loop.run(max_cycles) is entered: the for loop starts, with nothing to do
\* when range(max_cycles) is empty
RunCall(max_cycles) ==
    /\ ~run.active
    /\ cycle_count + max_cycles <= MaxCycles
    /\ run' = [active |-> TRUE, max |-> max_cycles, i |-> 0,
               done |-> Exhausted(0, max_cycles), startCycle |-> cycle_count,
               startTotal |-> total_experiments,
               startImprovements |-> improvements, broke |-> FALSE]
    /\ ret' = [op |-> "run_enter", max |-> max_cycles]
    /\ UNCHANGED <<components, loaders, I, writers, cycle_count, total_experiments,
                   improvements, log, hist>>

\* One turn of the for loop of run: run_cycle(), then the test on a fresh
\* snapshot that breaks out of the loop
RunIterate ==
    /\ run.active /\ ~run.done
    /\ \E gains \in CycleGainChoices(PlannedNow) : DoRunCycle(gains, TRUE)
    /\ LET break == StopTest(snapshot(I))
       IN  run' = [run EXCEPT !.i = @ + 1,
                              !.broke = break,
                              !.done = break \/ Exhausted(run.i + 1, run.max)]
    /\ UNCHANGED <<components, loaders, I, writers>>

\* run returning the totals of the call alone
RunReturnPerCall ==
    /\ run.active /\ run.done
    /\ ret' = [op |-> "run", max |-> run.max, iterations |-> run.i,
               broke |-> run.broke, startCycle |-> run.startCycle,
               startTotal |-> run.startTotal,
               startImprovements |-> run.startImprovements,
               out |-> [cycles |-> run.i,
                        total_experiments |->
                            total_experiments - run.startTotal,
                        improvements |->
                            improvements - run.startImprovements,
                        final_r_dod |-> snapshot(I).r]]
    /\ run' = NoRun
    /\ UNCHANGED <<components, loaders, I, writers, cycle_count, total_experiments,
                   improvements, log, hist>>

\* run returns its summary
RunReturn ==
    /\ run.active /\ run.done
    /\ ret' = [op |-> "run", max |-> run.max, iterations |-> run.i,
               broke |-> run.broke, startCycle |-> run.startCycle,
               startTotal |-> run.startTotal,
               startImprovements |-> run.startImprovements,
               out |-> [cycles |-> cycle_count,
                        total_experiments |-> total_experiments,
                        improvements |-> improvements,
                        final_r_dod |-> snapshot(I).r]]
    /\ run' = NoRun
    /\ UNCHANGED <<components, loaders, I, writers, cycle_count, total_experiments,
                   improvements, log, hist>>

(***************************************************************************)
(* log_event of several loops on one log path                              *)
(*                                                                         *)
(* log_event opens the file in append mode, writes one line and closes it; *)
(* it takes no lock.  What two such calls at once leave in the file is the *)
(* platform's doing: a local POSIX file places and writes the line in one  *)
(* step; where append is simulated (NFS, see open(2)) the end of the file  *)
(* is looked up first and the line written there in a second step.         *)
(***************************************************************************)
Writers == {"A", "B"}

IdleWriter == [pc |-> "idle", issued |-> 0, offset |-> 0]

NoWriters == [atomic |-> TRUE, of |-> [w \in Writers |-> IdleWriter]]

\* The data of the k-th event of writer w
EventData(w, k) == [writer |-> w, seq |-> k]

\* The record log_event(event_type, data) writes
LogRecord(st, event_type, data) ==
    [cycle |-> st.cycle_count, type |-> event_type, data |-> data]

\* A line written at a place in the file that was its end when looked up:
\* it lands at the end if nothing was written since, and over what was
\* written since otherwise (lines taken to be of one length)
WriteAt(file, offset, record) ==
    IF offset >= Len(file) THEN Append(file, record)
    ELSE [file EXCEPT ![offset + 1] = record]

AllIdle == \A w \in Writers : writers.of[w].pc = "idle"

\* log_event is entered: open(self.log_path, "a")
LogOpen(w) ==
    /\ writers.of[w].pc = "idle"
    /\ writers.of[w].issued < MaxAppends
    /\ writers' = [writers EXCEPT !.of[w].pc = "opened",
                                  !.of[w].issued = @ + 1]
    /\ ret' = [op |-> "log_open", writer |-> w]
    /\ UNCHANGED <<components, loaders, I, cycle_count, total_experiments,
                   improvements, log, run, hist>>

\* f.write and the close of the with block, on a file whose appends are
\* atomic
LogAppend(w) ==
    /\ writers.atomic
    /\ writers.of[w].pc = "opened"
    /\ log' = log_event(LoopState, "act",
                        EventData(w, writers.of[w].issued)).log
    /\ writers' = [writers EXCEPT !.of[w].pc = "idle"]
    /\ ret' = [op |-> "log_event", writer |-> w]
    /\ UNCHANGED <<components, loaders, I, cycle_count, total_experiments,
                   improvements, run, hist>>

\* f.write and the close of the with block, on a file whose appends are
\* simulated: first the end of the file is looked up
LogSeek(w) ==
    /\ ~writers.atomic
    /\ writers.of[w].pc = "opened"
    /\ writers' = [writers EXCEPT !.of[w].pc = "positioned",
                                  !.of[w].offset = Len(log)]
    /\ ret' = [op |-> "log_seek", writer |-> w]
    /\ UNCHANGED <<components, loaders, I, cycle_count, total_experiments,
                   improvements, log, run, hist>>

\* ... then the line is written there
LogWrite(w) ==
    /\ writers.of[w].pc = "positioned"
    /\ log' = WriteAt(log, writers.of[w].offset,
                      LogRecord(LoopState, "act",
                                EventData(w, writers.of[w].issued)))
    /\ writers' = [writers EXCEPT !.of[w].pc = "idle"]
    /\ ret' = [op |-> "log_event", writer |-> w]
    /\ UNCHANGED <<components, loaders, I, cycle_count, total_experiments,
                   improvements, run, hist>>

(***************************************************************************)
(* Specifications                                                          *)
(***************************************************************************)
NoHist ==
    [registered |-> {}, latest |-> {}, keepRows |-> FALSE, rows |-> <<>>,
     cycles |-> 0, planned |-> 0, plannedInCycles |-> 0, direct |-> 0]

Init ==
    /\ components = <<>>
    /\ loaders = <<>>
    /\ I = SourceI
    /\ cycle_count = 0
    /\ total_experiments = 0
    /\ improvements = 0
    /\ log = <<>>
    /\ run = NoRun
    /\ writers = NoWriters
    /\ ret = [op |-> "init"]
    /\ hist = NoHist

NextRegistry ==
    \/ \E u \in UsePool : Use(u[1], u[2])
    \/ \E rows \in Manifests : RegisterManifest(rows)
    \/ \E uid \in UIDs, env \in Envs : MaterializeCall(uid, env)

SpecRegistry == Init /\ [][NextRegistry]_vars

\* A registry that is only loaded from manifests, the rows of the last one
\* being kept in the history
InitManifest ==
    /\ components = <<>>
    /\ loaders = <<>>
    /\ I = SourceI
    /\ cycle_count = 0
    /\ total_experiments = 0
    /\ improvements = 0
    /\ log = <<>>
    /\ run = NoRun
    /\ writers = NoWriters
    /\ ret = [op |-> "init"]
    /\ hist = [NoHist EXCEPT !.keepRows = TRUE]

NextManifest == \E rows \in Manifests : RegisterManifest(rows)

SpecManifest == InitManifest /\ [][NextManifest]_vars

\* The registry of test_full_integration
TestComponents ==
    << Component("TEST_YAML", "yaml", ConfYaml),
       Component("TEST_PYTHON", "python", ConfPythonList),
       Component("TEST_HTTP", "http", ConfHttp) >>
TestLoaders ==
    << [kind |-> "yaml", loader |-> YamlLoaderPath],
       [kind |-> "python", loader |-> PythonLoaderPath],
       [kind |-> "http", loader |-> HttpLoaderPath] >>

\* A fresh loop on the registry of the tests
InitLoop ==
    /\ components = TestComponents
    /\ loaders = TestLoaders
    /\ I \in AwarenessVectors
    /\ cycle_count = 0
    /\ total_experiments = 0
    /\ improvements = 0
    /\ log = <<>>
    /\ run = NoRun
    /\ writers = NoWriters
    /\ ret = [op |-> "init"]
    /\ hist = [NoHist EXCEPT
                !.registered = {"TEST_YAML", "TEST_PYTHON", "TEST_HTTP"},
                !.latest = { TestComponents[i] : i \in 1..3 }]

\* What the phase methods are given when called between cycles
DirectResults ==
    { << Result(AboveGateSet[1], RollforwardThreshold) >>,
      << Result(AboveGateSet[1], RollforwardThreshold - 1),
         Result(BelowGateSet[1], GainCeiling(30)) >> }

\* A client of the loop: cycles, runs, and at most MaxDirectCalls calls of
\* the phase methods between them
NextLoop ==
    \/ RunCycleCall
    \/ \E n \in 0..MaxCycles : RunCall(n)
    \/ RunIterate
    \/ RunReturn
    \/ hist.direct < MaxDirectCalls /\ ReflectCall
    \/ hist.direct < MaxDirectCalls /\ PlanCall(snapshot(I))
    \/ /\ hist.direct < MaxDirectCalls
       /\ \E gains \in CycleGainChoices(PlannedNow) :
            ActCall(PlannedNow, gains)
    \/ /\ hist.direct < MaxDirectCalls
       /\ \E results \in DirectResults : LearnCall(results, snapshot(I))

SpecLoop == InitLoop /\ [][NextLoop]_vars

\* A client that only runs cycles, by run_cycle and by run
NextRun ==
    \/ RunCycleCall
    \/ \E n \in 0..MaxCycles : RunCall(n)
    \/ RunIterate
    \/ RunReturn

\* run is one call: once entered, its for loop takes its turns and the call
\* returns
SpecRunFair ==
    InitLoop /\ [][NextRun]_vars /\ WF_vars(RunIterate) /\ WF_vars(RunReturn)

\* The fitness values plan and learn are given: the loop's own, and the
\* values around the gate and the stop threshold
FitnessSamples ==
    { snapshot(I).r, MinGate - 1, MinGate, MinGate + 1, StopThreshold }

\* The result lists learn is given: gains on both sides of the rollforward
\* threshold, in both orders, and the empty list
PhaseResults ==
    { <<>> } \cup
    { << Result(AboveGateSet[1], g) >> : g \in GainSamples(20) } \cup
    { << Result(BelowGateSet[1], g1), Result(BelowGateSet[2], g2) >> :
        g1 \in GainSamples(30), g2 \in {RollforwardThreshold - 1,
                                        RollforwardThreshold} } \cup
    { << Result(AboveGateSet[2], RollforwardThreshold),
         Result(AboveGateSet[2], RollforwardThreshold) >> }

\* A client that calls the phase methods only, MaxPhaseCalls times, as
\* test_self_improvement_loop does
NextPhases ==
    \/ hist.direct < MaxPhaseCalls /\ ReflectCall
    \/ /\ hist.direct < MaxPhaseCalls
       /\ \E r \in FitnessSamples : PlanCall(SnapOf(r))
    \/ /\ hist.direct < MaxPhaseCalls
       /\ \E experiments \in {PlannedNow, Take(PlannedNow, 1), <<>>} :
            \E gains \in PhaseGainChoices(experiments) :
                ActCall(experiments, gains)
    \/ /\ hist.direct < MaxPhaseCalls
       /\ \E results \in PhaseResults, r \in {snapshot(I).r, MinGate} :
            LearnCall(results, SnapOf(r))

SpecPhases == InitLoop /\ [][NextPhases]_vars

\* Two fresh loops on one log path, on either kind of file
InitWriters ==
    /\ components = TestComponents
    /\ loaders = TestLoaders
    /\ I = SourceI
    /\ cycle_count = 0
    /\ total_experiments = 0
    /\ improvements = 0
    /\ log = <<>>
    /\ run = NoRun
    /\ writers \in { [NoWriters EXCEPT !.atomic = b] : b \in BOOLEAN }
    /\ ret = [op |-> "init"]
    /\ hist = NoHist

NextWriters ==
    \/ \E w \in Writers : LogOpen(w)
    \/ \E w \in Writers : LogAppend(w)
    \/ \E w \in Writers : LogSeek(w)
    \/ \E w \in Writers : LogWrite(w)

SpecWriters == InitWriters /\ [][NextWriters]_vars

\* The registries a loop is constructed on: the one of the tests, an empty
\* one, one whose kinds are all unbound, one whose components' loaders fail
\* (a config the loader cannot use, a kind bound to the abstract loader),
\* and one with a component of each sort
Registries ==
    { [components |-> TestComponents, loaders |-> TestLoaders],
      [components |-> <<>>, loaders |-> <<>>],
      [components |-> TestComponents, loaders |-> <<>>],
      [components |-> << Component("TEST_YAML", "yaml", EmptyConf),
                         Component("TEST_PYTHON", "python", ConfPythonNoDot),
                         Component("TEST_HTTP", "http", ConfHttp) >>,
       loaders |-> << [kind |-> "yaml", loader |-> YamlLoaderPath],
                      [kind |-> "python", loader |-> PythonLoaderPath],
                      [kind |-> "http", loader |-> BaseLoaderPath] >>],
      [components |-> << Component("TEST_YAML", "yaml", ConfYaml),
                         Component("TEST_PYTHON", "python", ConfPythonNoDot),
                         Component("TEST_HTTP", "structured-data", ConfHttp) >>,
       loaders |-> << [kind |-> "yaml", loader |-> YamlLoaderPath],
                      [kind |-> "python", loader |-> PythonLoaderPath] >>] }

\* A fresh loop on any of these registries
InitCycles ==
    /\ \E reg \in Registries :
        /\ components = reg.components
        /\ loaders = reg.loaders
        /\ hist = [NoHist EXCEPT
                    !.registered = { reg.components[i].uid :
                                        i \in DOMAIN reg.components },
                    !.latest = { reg.components[i] :
                                    i \in DOMAIN reg.components }]
    /\ I \in AwarenessVectors
    /\ cycle_count = 0
    /\ total_experiments = 0
    /\ improvements = 0
    /\ log = <<>>
    /\ run = NoRun
    /\ writers = NoWriters
    /\ ret = [op |-> "init"]

\* A client that runs cycles and materializes components between them
NextCycles ==
    \/ RunCycleCall
    \/ \E n \in 0..MaxCycles : RunCall(n)
    \/ RunIterate
    \/ RunReturn
    \/ \E uid \in UIDs : MaterializeCall(uid, GoodEnv)

SpecCycles == InitCycles /\ [][NextCycles]_vars

\* The fitness values get_gate_status is given: those of the snapshots,
\* the values around the threshold, and the unit interval in tenths
RdodSamples ==
    { snapshot(vec).r : vec \in AwarenessVectors \cup GateVectors }
        \cup ((TH - 2)..(TH + 2))
        \cup { k * (SCALE \div 10) : k \in 0..10 }

\* metrics.py loaded with any of the integration vectors
InitGate ==
    /\ components = TestComponents
    /\ loaders = TestLoaders
    /\ I \in AwarenessVectors \cup GateVectors
    /\ cycle_count = 0
    /\ total_experiments = 0
    /\ improvements = 0
    /\ log = <<>>
    /\ run = NoRun
    /\ writers = NoWriters
    /\ ret = [op |-> "init"]
    /\ hist = NoHist

\* A client that takes snapshots and asks for the gate status of fitness
\* values
NextGate ==
    \/ SnapshotCall
    \/ \E rdod \in RdodSamples : GateStatusCall(rdod)

SpecGate == InitGate /\ [][NextGate]_vars

\* Values of [0, 1] given to rd as progress, trust and coherence: the ends,
\* the least positive value, rd's defaults and values between
UnitSamples ==
    {0, 1, 2500, 5000, 8225, T_DEFAULT, C_DEFAULT, SCALE}

\* Values of [0, 1] given to rd as decay
DecaySamples == {0, D_DEFAULT, 5000, SCALE - 1, SCALE}

\* A program that is to compute one fitness value, of any such arguments
InitRd ==
    /\ components = TestComponents
    /\ loaders = TestLoaders
    /\ I = SourceI
    /\ cycle_count = 0
    /\ total_experiments = 0
    /\ improvements = 0
    /\ log = <<>>
    /\ run = NoRun
    /\ writers = NoWriters
    /\ ret \in [op : {"init"}, p : UnitSamples, t : UnitSamples,
                c : UnitSamples, d : DecaySamples]
    /\ hist = NoHist

NextRd == RdCall

SpecRd == InitRd /\ [][NextRd]_vars

\* The values ps is given as x: the ends of [0, 1], neighbouring values,
\* the values of the duality demonstration, and values outside [0, 1]
XSamples ==
    {0, 1, 2, 2500, 5000, 5001, 8500, 9500, SCALE - 2, SCALE - 1, SCALE}
        \cup {0 - SCALE, -1, SCALE + 1, 2 * SCALE}

\* The depths ps is given: those whose power of P is computed, and two at
\* which the power is out of the range of a float
Depths == (0..MaxDepth) \cup {OverflowDepth, OverflowDepth + 1}

\* A program that is to compress one value, of any such arguments
InitPs ==
    /\ components = TestComponents
    /\ loaders = TestLoaders
    /\ I = SourceI
    /\ cycle_count = 0
    /\ total_experiments = 0
    /\ improvements = 0
    /\ log = <<>>
    /\ run = NoRun
    /\ writers = NoWriters
    /\ ret \in [op : {"init"}, x : XSamples, n : Depths]
    /\ hist = NoHist

NextPs == PsCall

SpecPs == InitPs /\ [][NextPs]_vars

\* A program that is to smooth one value with each implementation
NextSmooth == SmoothCall

SpecSmooth == InitPs /\ [][NextSmooth]_vars

\* The clock values snapshot is given: days before, at and after the omega
\* point
Nows == {-2, -1, 0, 1}

\* A client that runs cycles, materializes components and takes snapshots
\* at any time between them
NextSnapshots ==
    \/ RunCycleCall
    \/ \E n \in 0..MaxCycles : RunCall(n)
    \/ RunIterate
    \/ RunReturn
    \/ \E uid \in UIDs : MaterializeCall(uid, GoodEnv)
    \/ \E now \in Nows : SnapshotAtCall(now)

SpecSnapshots == InitCycles /\ [][NextSnapshots]_vars

\* One registered component, of any kind and config, its kind bound to one
\* of the three loaders; materialize is then called in every environment.
InitBuild ==
    /\ \E kind \in Kinds, conf \in AllConfs,
          path \in {YamlLoaderPath, PythonLoaderPath, HttpLoaderPath} :
            /\ components = <<Component("TEST_YAML", kind, conf)>>
            /\ loaders = <<[kind |-> kind, loader |-> path]>>
            /\ hist = [NoHist EXCEPT
                        !.registered = {"TEST_YAML"},
                        !.latest = {Component("TEST_YAML", kind, conf)}]
    /\ I = SourceI
    /\ cycle_count = 0
    /\ total_experiments = 0
    /\ improvements = 0
    /\ log = <<>>
    /\ run = NoRun
    /\ writers = NoWriters
    /\ ret = [op |-> "init"]

NextBuild == \E uid \in UIDs, env \in Envs : MaterializeCall(uid, env)

SpecBuild == InitBuild /\ [][NextBuild]_vars

\* The streams the validations find in FREQUENCY_STREAMS: those of the
\* source, and those with one stream set to nothing or to full integration
StreamSamples ==
    { SourceStreams } \cup
    { [SourceStreams EXCEPT ![i] = v] : i \in 1..12, v \in {0, 100} }

\* The clock values of the validations, in days from the omega point: days
\* around it, and days so long before it that PHI ** (t / TAU) is out of
\* the range of a float
ClockSamples ==
    Nows \cup { 0 - OverflowDepth * TAU - 1, 0 - OverflowDepth * TAU,
                1 - OverflowDepth * TAU }

\* A program that is to run the validations once, on any such streams and
\* clock
InitDuality ==
    /\ components = TestComponents
    /\ loaders = TestLoaders
    /\ I = SourceI
    /\ cycle_count = 0
    /\ total_experiments = 0
    /\ improvements = 0
    /\ log = <<>>
    /\ run = NoRun
    /\ writers = NoWriters
    /\ ret \in [op : {"init"}, streams : StreamSamples, now : ClockSamples]
    /\ hist = NoHist

NextDuality == RunAllValidationsCall

SpecDuality == InitDuality /\ [][NextDuality]_vars

(***************************************************************************)
(* Properties of the registry                                              *)
(***************************************************************************)

\* C1: the component table never holds two components with one uid;
\* component_count() is the number of distinct ids registered so far; each
\* stored component has the kind and config of the last entry that gave its
\* id; and a manifest of N well-formed entries with pairwise distinct ids
\* loaded into an empty registry gives count N.
C1_OneComponentPerUid ==
    /\ \A i, j \in DOMAIN components :
            components[i].uid = components[j].uid => i = j
    /\ ComponentCount = Cardinality(hist.registered)
    /\ { components[i] : i \in DOMAIN components } = hist.latest
    /\ (ret.op = "register_manifest" /\ ret.wasEmpty /\ ret.wellFormed
            /\ ret.distinct)
        => ComponentCount = ret.n

\* a manifest of two entries with the same id was loaded: one component, with
\* the later entry's kind
C1_Witness ==
    /\ ret.op = "register_manifest"
    /\ ret.n = 2 /\ ~ret.distinct /\ ~ret.raised /\ ret.wasEmpty
    /\ ComponentCount = 1
    /\ components[1].kind = "structured-data"
    /\ components[1].conf = EmptyConf

\* C2: materialize(uid) raises KeyError (NotFound) when uid is not registered
\* and when its kind has no loader binding; no loader's build runs and the
\* components and bindings are as before the call.
C2_MaterializeNotFound ==
    (ret.op = "materialize" /\ (~ret.known \/ ~ret.bound))
        => /\ ret.res.tag = "raise"
           /\ ret.res.exc = "KeyError"
           /\ ~ret.invoked
           /\ ~ret.changed

\* materialize was called on a registered uid whose kind is not bound, in a
\* registry that has bindings
C2_Witness ==
    /\ ret.op = "materialize"
    /\ ret.known /\ ~ret.bound
    /\ loaders # <<>>
    /\ ret.res.exc = "KeyError"

PayloadKeys == {"data", "result"}

\* C3: every materialize call on a registered uid with a bound kind returns a
\* result in which exactly one of payload / error is populated; no exception
\* leaves the loader's build.
C3_BuildNeverRaises ==
    (ret.op = "materialize" /\ ret.known /\ ret.bound)
        => /\ ret.res.tag = "return"
           /\ ("error" \in ret.res.keys) # (ret.res.keys \cap PayloadKeys # {})

(***************************************************************************)
(* Properties of the self-improvement loop                                 *)
(***************************************************************************)
\* C4: a run_cycle that plans n experiments appends exactly n + 3 events to
\* the audit log: one reflect, one plan, n act and one learn event, in that
\* order, each tagged with the cycle count as run_cycle incremented it; a
\* loop taken through cycles only has logged, after k cycles, the number of
\* its experiments plus 3 * k events.
C4_CycleEvents ==
    /\ ret.op = "run_cycle" =>
         LET n == ret.planned
             base == ret.logBefore
             expected == [i \in 1..(n + 3) |->
                            IF i = 1 THEN "reflect"
                            ELSE IF i = 2 THEN "plan"
                            ELSE IF i <= n + 2 THEN "act" ELSE "learn"]
         IN  /\ n = ret.out.experiments
             /\ Len(log) = base + n + 3
             /\ \A i \in 1..(n + 3) :
                    /\ log[base + i].type = expected[i]
                    /\ log[base + i].cycle = ret.cycleBefore + 1
             /\ cycle_count = ret.cycleBefore + 1
    /\ hist.direct = 0 => Len(log) = total_experiments + 3 * hist.cycles

\* The second of two cycles of three experiments, in a loop taken through
\* cycles only: twelve events
C4_Witness ==
    /\ ret.op = "run_cycle"
    /\ ret.cycleBefore = 1
    /\ ret.planned = 3
    /\ hist.direct = 0
    /\ Len(log) = 12
    /\ log[12].type = "learn" /\ log[12].cycle = 2

\* C5: run(max_cycles) returns, after at most max_cycles cycles: after one
\* cycle when the fitness is at or above 0.999 (also when it was so at entry,
\* and also when max_cycles > 1), after all max_cycles cycles otherwise,
\* whatever the fitness is against the gate of 0.9777; run(0) runs no cycle.
C5_RunTerminates ==
    /\ [](run.active =>
            /\ run.i <= Max(0, run.max)
            /\ cycle_count = run.startCycle + run.i
            /\ run.i > 0 /\ ~run.done => snapshot(I).r < StopThreshold)
    /\ [](ret.op = "run" =>
            /\ ret.iterations = cycle_count - ret.startCycle
            /\ ret.iterations =
                    IF snapshot(I).r >= StopThreshold
                    THEN Min(1, ret.max) ELSE ret.max
            /\ ret.broke <=>
                    (ret.max >= 1 /\ snapshot(I).r >= StopThreshold))
    /\ (run.active ~> ~run.active)

\* run(2) that stopped after its first cycle
C5_Witness ==
    /\ ret.op = "run"
    /\ ret.max = 2
    /\ ret.iterations = 1
    /\ ret.broke
    /\ snapshot(I).r >= StopThreshold

\* C6: on a fresh loop, run(max_cycles) that did not stop early leaves
\* cycle_count = max_cycles and total_experiments = max_cycles *
\* experiments_per_cycle; improvements after a cycle of a run is never below
\* what it was before the cycle.
C6_FreshRun ==
    /\ (/\ ret.op = "run"
        /\ ret.startCycle = 0 /\ ret.startTotal = 0
        /\ ~ret.broke)
        => /\ cycle_count = ret.max
           /\ ret.out.cycles = ret.max
           /\ total_experiments = ret.max * ExperimentsPerCycle
           /\ ret.out.total_experiments = ret.max * ExperimentsPerCycle
           /\ improvements >= ret.startImprovements
    /\ (ret.op = "run_cycle" /\ ret.inRun)
        => improvements >= ret.improvementsBefore

\* run(2) on a fresh loop, as test_full_integration calls it, not stopped
\* early, with an improvement kept
C6_Witness ==
    /\ ret.op = "run"
    /\ ret.max = 2
    /\ ret.startCycle = 0 /\ ret.startTotal = 0
    /\ ~ret.broke
    /\ ret.out.cycles = 2
    /\ ret.out.total_experiments = 6
    /\ ret.out.improvements > 0

\* C7, as stated: in every state cycle_count is the number of cycles
\* completed and total_experiments the sum of the experiment counts of all
\* plan phases completed, those of direct calls of plan among them.
C7_CountersAllPlans ==
    /\ cycle_count = hist.cycles
    /\ total_experiments = hist.planned

\* C7, amended: between calls, cycle_count is the number of run_cycle
\* executions completed and total_experiments the sum of the experiment
\* counts of the plan phases executed inside run_cycle; a plan phase run by
\* a direct call of plan is not counted.
C7_CountersCyclePlans ==
    /\ cycle_count = hist.cycles
    /\ total_experiments = hist.plannedInCycles

\* After a cycle, plan was called directly: its experiments are planned and
\* not counted
C7_Witness ==
    /\ ret.op = "plan"
    /\ hist.cycles >= 1
    /\ Len(ret.out) = 3
    /\ hist.planned = hist.plannedInCycles + 3
    /\ total_experiments = hist.plannedInCycles

\* C8, as stated: no step lowers cycle_count, total_experiments or
\* improvements, and a direct call of reflect, plan, act or learn leaves all
\* three unchanged.
C8_PhasesLeaveCounters ==
    [][/\ cycle_count' >= cycle_count
       /\ total_experiments' >= total_experiments
       /\ improvements' >= improvements
       /\ ret'.op \in {"reflect", "plan", "act", "learn"}
            => UNCHANGED <<cycle_count, total_experiments, improvements>>]_vars

\* C8, amended: no step lowers a counter; cycle_count and total_experiments
\* change only in run_cycle; a direct call of reflect, plan or act leaves all
\* three unchanged, and a direct call of learn leaves cycle_count and
\* total_experiments unchanged and raises improvements by the number of
\* results it kept.
C8_CountersFrame ==
    [][/\ cycle_count' >= cycle_count
       /\ total_experiments' >= total_experiments
       /\ improvements' >= improvements
       /\ (cycle_count' # cycle_count \/ total_experiments' # total_experiments)
            => ret'.op = "run_cycle"
       /\ improvements' # improvements => ret'.op \in {"run_cycle", "learn"}
       /\ ret'.op \in {"reflect", "plan", "act"}
            => UNCHANGED <<cycle_count, total_experiments, improvements>>
       /\ ret'.op = "learn"
            => /\ UNCHANGED <<cycle_count, total_experiments>>
               /\ improvements' = improvements + Len(ret'.kept)]_vars

\* After a cycle, learn was called directly and kept a result
C8_Witness ==
    /\ ret.op = "learn"
    /\ hist.cycles >= 1
    /\ Len(ret.kept) >= 1
    /\ improvements = ret.improvementsBefore + Len(ret.kept)
    /\ cycle_count = hist.cycles

\* C9: plan(snap) returns the below-gate set exactly when snap["r"] < 0.9777
\* and the above-gate set otherwise (at 0.9777 too), never more than
\* experiments_per_cycle experiments, and logs a plan event with the types
\* chosen and gate_needed = max(0, 0.9777 - r), which is positive exactly
\* when the below-gate set was chosen.
C9_PlanByGate ==
    ret.op = "plan" =>
        LET types == [i \in DOMAIN ret.out |-> ret.out[i].type]
            below == <<"expand_manifest", "optimize_loaders",
                       "refine_metrics">>
            above == <<"discover_components", "tune_awareness",
                       "cache_optimization">>
            event == log[Len(log)]
        IN  /\ types = IF ret.r < MinGate THEN below ELSE above
            /\ Len(ret.out) <= ExperimentsPerCycle
            /\ event.type = "plan"
            /\ event.data.experiment_types = types
            /\ event.data.experiments = Len(ret.out)
            /\ event.data.gate_needed = Max(0, MinGate - ret.r)
            /\ event.data.gate_needed > 0 <=> types = below

\* plan called with a fitness of exactly 0.9777
C9_Witness ==
    /\ ret.op = "plan"
    /\ ret.r = MinGate
    /\ ret.out[1].type = "discover_components"
    /\ log[Len(log)].data.gate_needed = 0

\* C10: learn(results, snap_before) puts every result in exactly one of kept
\* and rejected, in kept exactly when its actual_gain is >= 0.002, raises
\* improvements by the number kept, and reports r_gain = the fitness of a
\* snapshot taken inside learn minus that of snap_before.
C10_LearnPartition ==
    ret.op = "learn" =>
        LET InKept(x) == x.actual_gain >= RollforwardThreshold
        IN  /\ Len(ret.kept) + Len(ret.rejected) = Len(ret.results)
            /\ ret.kept = SelectSeq(ret.results, InKept)
            /\ ret.rejected =
                    SelectSeq(ret.results, LAMBDA x : ~InKept(x))
            /\ \A i \in DOMAIN ret.kept, j \in DOMAIN ret.rejected :
                    ret.kept[i] # ret.rejected[j]
            /\ improvements = ret.improvementsBefore + Len(ret.kept)
            /\ ret.out.improvements = improvements
            /\ ret.out.kept = Len(ret.kept)
            /\ ret.out.rejected = Len(ret.rejected)
            /\ ret.out.r_after = snapshot(I).r
            /\ ret.out.r_gain = snapshot(I).r - ret.r_before

\* learn given a result at the threshold and one just below it, on a loop
\* that had kept improvements before, with a fitness that differs from the
\* one of snap_before
C10_Witness ==
    /\ ret.op = "learn"
    /\ Len(ret.results) = 2
    /\ \E i \in DOMAIN ret.kept :
            ret.kept[i].actual_gain = RollforwardThreshold
    /\ \E j \in DOMAIN ret.rejected :
            ret.rejected[j].actual_gain = RollforwardThreshold - 1
    /\ ret.improvementsBefore > 0
    /\ ret.out.r_gain # 0

\* C11: act(experiments) returns one result per experiment, in the order of
\* the experiments and with their type and description, each with executed
\* true and an actual_gain between 0 and 1.5 times the expected_gain of its
\* experiment, and appends one act event per experiment to the audit log,
\* carrying that result (no event for an empty list).
C11_ActResults ==
    ret.op = "act" =>
        LET n == Len(ret.experiments)
        IN  /\ Len(ret.out) = n
            /\ Len(log) = ret.logBefore + n
            /\ \A i \in 1..n :
                /\ ret.out[i].type = ret.experiments[i].type
                /\ ret.out[i].description = ret.experiments[i].description
                /\ ret.out[i].executed = TRUE
                /\ ret.out[i].actual_gain >= 0
                /\ 2 * ret.out[i].actual_gain
                        <= 3 * ret.experiments[i].expected_gain
                /\ log[ret.logBefore + i].type = "act"
                /\ log[ret.logBefore + i].data = ret.out[i]

\* act given three experiments after another phase call had written to the
\* log, the first gain being the largest the draw allows
C11_Witness ==
    /\ ret.op = "act"
    /\ Len(ret.experiments) = 3
    /\ ret.logBefore > 0
    /\ 2 * ret.out[1].actual_gain = 3 * ret.experiments[1].expected_gain
    /\ ret.out[1].type # ret.out[2].type

\* C12: the audit log only grows at its end: every step of the loop leaves
\* the log it found as a prefix of the log it leaves, and adds one record
\* per log_event call it makes: one for reflect, plan and learn, one per
\* experiment for act, all of them for run_cycle, none for the entry to and
\* the return from run.
C12_AppendOnly ==
    [][/\ Len(log') >= Len(log)
       /\ SubSeq(log', 1, Len(log)) = log
       /\ Len(log') - Len(log) =
            CASE ret'.op \in {"reflect", "plan", "learn"} -> 1
              [] ret'.op = "act" -> Len(ret'.experiments)
              [] ret'.op = "run_cycle" -> ret'.planned + 3
              [] OTHER -> 0
       /\ ret'.op \in {"reflect", "plan", "learn"}
            => log'[Len(log')].type = ret'.op]_vars

\* A direct reflect on a log that a cycle had written: the cycle's records
\* are still its first ones
C12_Witness ==
    /\ ret.op = "reflect"
    /\ hist.cycles >= 1
    /\ Len(log) >= 7
    /\ log[1].type = "reflect" /\ log[1].cycle = 1
    /\ log[Len(log)].type = "reflect"

\* C13: when two loops write to one log path at once, once both are done
\* every record either of them issued is in the log, whole and once, and the
\* records of each writer are in the order it issued them.
C13_AppendsSerialized ==
    AllIdle =>
        /\ \A w \in Writers : \A k \in 1..writers.of[w].issued :
            Cardinality({ i \in DOMAIN log :
                            log[i].data = EventData(w, k) }) = 1
        /\ \A i, j \in DOMAIN log :
            (i < j /\ log[i].data.writer = log[j].data.writer)
                => log[i].data.seq < log[j].data.seq

(***************************************************************************)
(* Properties of the manifest load and of the bindings                     *)
(***************************************************************************)
\* C14: register_manifest on a manifest with a row that lacks id or kind
\* fails with an error that carries the offending row, and every row before
\* it stays registered.
C14_ErrorReportsEntry ==
    (ret.op = "register_manifest" /\ ret.raised) =>
        /\ "entry" \in DOMAIN ret.error
        /\ ret.error.entry = hist.rows[ret.at]
        /\ \A i \in 1..(ret.at - 1) :
                HasComponent(components, hist.rows[i].id)

\* C15, as stated: a row without id or kind does not stop the load; the
\* well-formed rows of the manifest, those after it too, are registered.
C15_LoadContinues ==
    ret.op = "register_manifest" =>
        \A i \in DOMAIN hist.rows :
            ~Malformed(hist.rows[i])
                => HasComponent(components, hist.rows[i].id)

\* C15, amended: the first row without id or kind stops the load with a
\* KeyError naming the missing key: the rows before it are registered, each
\* id with the kind and config of the last of them that gave it, and every
\* other id, those of the rows after it too, is as it was before the load; a
\* manifest without such a row is registered whole and raises nothing.
C15_LoadStops ==
    [][ret'.op = "register_manifest" =>
        LET rows == hist'.rows
            bad == { i \in DOMAIN rows : Malformed(rows[i]) }
            first == IF bad = {} THEN Len(rows) + 1
                     ELSE CHOOSE i \in bad : \A j \in bad : i <= j
            stored == { rows[i].id : i \in 1..(first - 1) }
        IN  /\ ret'.raised <=> bad # {}
            /\ ret'.raised =>
                /\ ret'.at = first
                /\ ret'.error.exc = "KeyError"
                /\ ret'.error.key =
                        IF "id" \in rows[first].keys THEN "kind" ELSE "id"
            /\ \A i \in 1..(first - 1) :
                /\ HasComponent(components', rows[i].id)
                /\ (\A j \in (i + 1)..(first - 1) : rows[j].id # rows[i].id)
                    => GetComponent(components', rows[i].id) =
                         Component(rows[i].id, rows[i].kind,
                                   IF "config" \in rows[i].keys
                                   THEN rows[i].config ELSE EmptyConf)
            /\ \A uid \in UIDs \ stored :
                /\ HasComponent(components', uid)
                        <=> HasComponent(components, uid)
                /\ HasComponent(components, uid)
                    => GetComponent(components', uid)
                            = GetComponent(components, uid)]_vars

\* A manifest whose first row lacks id or kind and whose second row is well
\* formed: the load raised at the first row and the second row's id is not
\* registered
C15_Witness ==
    /\ ret.op = "register_manifest"
    /\ ret.raised /\ ret.at = 1
    /\ Len(hist.rows) = 2
    /\ ~Malformed(hist.rows[2])
    /\ ~HasComponent(components, hist.rows[2].id)
    /\ components # <<>>

\* C16: a kind has at most one binding; use(kind, loader) leaves the kind
\* bound to that loader, whatever it was bound to, and the other kinds and
\* the component table as they were; the same use again changes nothing;
\* no other operation changes a binding; and materialize builds with the
\* loader its component's kind is bound to when it is called (each loader
\* stamps its results with its own name for the kind).
C16_LastUseWins ==
    [][/\ \A i, j \in DOMAIN loaders' :
            loaders'[i].kind = loaders'[j].kind => i = j
       /\ ret'.op = "use" =>
            /\ HasLoader(loaders', ret'.kind)
            /\ GetLoader(loaders', ret'.kind) = ret'.loader
            /\ \A k \in Kinds \ {ret'.kind} :
                /\ HasLoader(loaders', k) <=> HasLoader(loaders, k)
                /\ HasLoader(loaders, k)
                    => GetLoader(loaders', k) = GetLoader(loaders, k)
            /\ (HasLoader(loaders, ret'.kind)
                /\ GetLoader(loaders, ret'.kind) = ret'.loader)
                    => loaders' = loaders
            /\ components' = components
       /\ ret'.op # "use" => loaders' = loaders
       /\ (ret'.op = "materialize" /\ ret'.invoked
           /\ ret'.res.tag = "return") =>
            LET c == GetComponent(components, ret'.uid)
                cls == LastName(GetLoader(loaders, c.kind))
            IN  ret'.res.kind =
                    CASE cls = "YamlLoader" -> "yaml"
                      [] cls = "PythonLoader" -> "python"
                      [] cls = "HttpLoader" -> "http"]_vars

\* A component registered with kind yaml, materialized while yaml is bound
\* to the HTTP loader: the HTTP loader built it
C16_Witness ==
    /\ ret.op = "materialize"
    /\ ret.invoked
    /\ GetComponent(components, ret.uid).kind = "yaml"
    /\ GetLoader(loaders, "yaml") = HttpLoaderPath
    /\ ret.res.tag = "return"
    /\ ret.res.kind = "http"

(***************************************************************************)
(* Properties of the loaders' results                                      *)
(***************************************************************************)
\* C17: every error result a loader returns carries the uid of the component
\* being materialized and the kind of that component, under whatever kind
\* name the loader is bound.
C17_ErrorCarriesKind ==
    (/\ ret.op = "materialize"
     /\ ret.invoked
     /\ ret.res.tag = "return"
     /\ "error" \in ret.res.keys)
        => /\ {"component", "kind"} \subseteq ret.res.keys
           /\ ret.res.component = ret.uid
           /\ ret.res.kind = GetComponent(components, ret.uid).kind

\* C18: a loader failure never aborts a cycle: on every registry content,
\* components whose loaders fail and components of unbound kinds included,
\* run_cycle can be called, logs its reflect, plan, act and learn events,
\* returns its summary (cycle, experiments, r_gain, improvements), and
\* leaves the component table and the loader bindings as they were.
C18_CycleIgnoresLoaders ==
    /\ [][cycle_count' # cycle_count =>
            LET new == SubSeq(log', Len(log) + 1, Len(log'))
            IN  /\ ret'.op = "run_cycle"
                /\ DOMAIN ret'.out =
                        {"cycle", "experiments", "r_gain", "improvements"}
                /\ ret'.out.cycle = cycle_count'
                /\ Len(new) = ret'.out.experiments + 3
                /\ new[1].type = "reflect"
                /\ new[1].data.components = Len(components)
                /\ new[2].type = "plan"
                /\ \A i \in 3..(Len(new) - 1) : new[i].type = "act"
                /\ new[Len(new)].type = "learn"
                /\ components' = components
                /\ loaders' = loaders]_vars
    /\ []((~run.active /\ cycle_count < MaxCycles) => ENABLED RunCycleCall)

\* The second cycle of a loop whose registry holds a component of an
\* unbound kind and a component whose loader raises
C18_Witness ==
    /\ ret.op = "run_cycle"
    /\ cycle_count = 2
    /\ DOMAIN ret.out = {"cycle", "experiments", "r_gain", "improvements"}
    /\ \E i \in DOMAIN components : ~HasLoader(loaders, components[i].kind)
    /\ \E i \in DOMAIN components :
        /\ HasLoader(loaders, components[i].kind)
        /\ Materialize(components, loaders, components[i].uid,
                       GoodEnv).res.tag = "raise"


\* C19: in every snapshot the gate is 1 exactly when the fitness is at or
\* above the threshold 0.9777 (open at the threshold itself, closed below
\* it), and get_gate_status answers OPEN exactly when the fitness is at or
\* above that threshold, so it agrees with the 0/1 gate of a snapshot on
\* the snapshot's own fitness and on every fitness value.
C19_GateBoundary ==
    /\ ret.op = "snapshot" =>
        /\ ret.out.g \in {0, 1}
        /\ ret.out.g = 1 <=> ret.out.r >= TH
        /\ get_gate_status(ret.out.r) = "OPEN" <=> ret.out.g = 1
    /\ ret.op = "get_gate_status" =>
        /\ ret.out \in {"OPEN", "CLOSED"}
        /\ ret.out = "OPEN" <=> ret.rdod >= TH
        /\ \A vec \in AwarenessVectors \cup GateVectors :
            snapshot(vec).r = ret.rdod =>
                (ret.out = "OPEN" <=> snapshot(vec).g = 1)

\* get_gate_status called with the threshold itself, in a program whose
\* snapshot has exactly that fitness and an open gate
C19_Witness ==
    /\ ret.op = "get_gate_status"
    /\ ret.rdod = TH
    /\ ret.out = "OPEN"
    /\ snapshot(I).r = TH
    /\ snapshot(I).g = 1


\* C20: for progress, trust, coherence and decay in [0, 1], the fitness
\* rd(p, t, c, d) = ps(p^0.5) * ps(t^0.3) * ps(c^0.2) * (1 - d) lies in
\* [0, 1]; being a product of 1 - d with factors of at most 1, it is also
\* at most 1 - d.
C20_FitnessInUnit ==
    ret.op = "rd" =>
        /\ {ret.p, ret.t, ret.c, ret.d} \subseteq 0..SCALE
        /\ ret.out \in 0..SCALE
        /\ ret.out <= SCALE - ret.d

\* The ends of the range are met: fitness 1 for full progress, trust and
\* coherence without decay
C20_Witness ==
    /\ ret.op = "rd"
    /\ ret.p = SCALE /\ ret.t = SCALE /\ ret.c = SCALE /\ ret.d = 0
    /\ ret.out = SCALE


\* C21: for every x and every depth >= 0, ps(x, depth) returns a value of
\* [0, 1]: an x of [0, 1] is compressed within [0, 1], and an x outside
\* [0, 1] is clamped into it first.
C21_CompressInUnit ==
    ret.op = "ps" =>
        /\ ~ret.raised
        /\ ret.out \in 0..SCALE
        /\ ret.x < 0 => ret.out = ps(0, ret.n)
        /\ ret.x > SCALE => ret.out = ps(SCALE, ret.n)


\* C22: the ends of [0, 1] are fixed points of compression: ps(0, depth) = 0
\* and ps(1, depth) = 1 for every depth, the default depth 3 included.
C22_EndpointsFixed ==
    ret.op = "ps" =>
        /\ ret.x = 0 => (~ret.raised /\ ret.out = 0)
        /\ ret.x = SCALE => (~ret.raised /\ ret.out = SCALE)


C24_SameValue ==
    ret.op = "smooth" =>
        /\ \A f \in {"verbose", "compact", "recursive", "lambda",
                     "iterative"} : ~ret[f].raised
        /\ ret.compact.out = RecursiveValue(ret.x, ret.n)
        /\ \A f \in {"compact", "recursive", "lambda", "iterative"} :
            ret[f].out = ret.verbose.out


\* C25: a snapshot's awareness, fitness and gate depend neither on the time
\* argument nor on the registry nor on the loop's state: all snapshots
\* taken in one program (those reflect and learn log, and those a client
\* takes at any time) agree on a, r and g; so every cycle's learn reports
\* r_gain = 0, every cycle's plan selects the same experiments, and no kept
\* or rejected experiment changes a later snapshot's fitness.
C25_SnapshotsAgree ==
    LET events(type) == { i \in DOMAIN log : log[i].type = type }
        taken ==
            { [a |-> log[i].data.awareness, r |-> log[i].data.r_dod,
               g |-> log[i].data.gate_status] : i \in events("reflect") }
            \cup (IF ret.op = "snapshot_at"
                  THEN { [a |-> ret.out.a, r |-> ret.out.r, g |-> ret.out.g] }
                  ELSE {})
        fitness ==
            { s.r : s \in taken }
            \cup { log[i].data.r_before : i \in events("learn") }
            \cup { log[i].data.r_after : i \in events("learn") }
    IN  /\ Cardinality(taken) <= 1
        /\ Cardinality(fitness) <= 1
        /\ \A i \in events("learn") : log[i].data.r_gain = 0
        /\ ret.op = "run_cycle" => ret.out.r_gain = 0
        /\ \A i, j \in events("plan") :
            log[i].data.experiment_types = log[j].data.experiment_types
        /\ ret.op = "snapshot_at" => ret.out.d = DaysToOmega(ret.now)

\* A snapshot taken before the omega point, after two cycles in which an
\* experiment was kept and one was rejected, on a registry whose loaders fail
C25_Witness ==
    /\ ret.op = "snapshot_at"
    /\ ret.now < 0
    /\ ret.out.d > 0
    /\ cycle_count = 2
    /\ improvements > 0
    /\ improvements < total_experiments
    /\ components # TestComponents
    /\ \E i \in DOMAIN log :
        log[i].type = "reflect" /\ log[i].data.r_dod = ret.out.r


\* C26: a loop taken from its construction through run_cycle and run calls
\* only has, whenever no call is in progress,
\* improvements <= total_experiments <= experiments_per_cycle * cycle_count.
C26_CounterOrder ==
    ~run.active =>
        /\ 0 <= improvements
        /\ improvements <= total_experiments
        /\ total_experiments <= ExperimentsPerCycle * cycle_count

\* A run has returned after two cycles of three experiments each, some of
\* them kept: the second inequality is met with equality
C26_Witness ==
    /\ ~run.active
    /\ ret.op = "run"
    /\ cycle_count = 2
    /\ total_experiments = ExperimentsPerCycle * cycle_count
    /\ improvements > 0
    /\ improvements < total_experiments

\* C27: an experiment whose expected gain is 0.001 is never kept, its actual
\* gain being at most 0.0015, below the rollforward threshold 0.002; so one
\* cycle increases improvements by at most 2 when the below-gate set is
\* planned (only expand_manifest and optimize_loaders can be kept) and by at
\* most 1 when the above-gate set is planned (only discover_components).
C27_SmallGainRejected ==
    ret.op = "run_cycle" =>
        LET n == ret.planned
            results == [i \in 1..n |-> log[ret.logBefore + 2 + i].data]
            planned == IF snapshot(I).r < MinGate THEN BelowGateSet
                       ELSE AboveGateSet
            kept == { i \in 1..n : Keep(results[i]) }
        IN  /\ \A i \in 1..n :
                /\ results[i].type = planned[i].type
                /\ planned[i].expected_gain = 10 =>
                    /\ 2 * results[i].actual_gain <= 3 * 10
                    /\ results[i].actual_gain < RollforwardThreshold
                    /\ i \notin kept
            /\ improvements - ret.improvementsBefore = Cardinality(kept)
            /\ snapshot(I).r < MinGate =>
                /\ Cardinality(kept) <= 2
                /\ \A i \in kept :
                    results[i].type \in {"expand_manifest",
                                         "optimize_loaders"}
            /\ snapshot(I).r >= MinGate =>
                /\ Cardinality(kept) <= 1
                /\ \A i \in kept : results[i].type = "discover_components"

\* A cycle on the below-gate set that keeps both experiments that can be
\* kept, the third having drawn its largest gain
C27_Witness ==
    /\ ret.op = "run_cycle"
    /\ snapshot(I).r < MinGate
    /\ ret.planned = 3
    /\ improvements - ret.improvementsBefore = 2
    /\ log[ret.logBefore + 5].data.type = "refine_metrics"
    /\ 2 * log[ret.logBefore + 5].data.actual_gain = 3 * 10


\* C28: the summary run returns reports the loop's lifetime totals, not
\* those of the call: cycles, total_experiments and improvements are the
\* loop's counters, which include every earlier run and every earlier
\* direct run_cycle, so a second run(n) that is not stopped early returns
\* cycles = 2n; and the improvements field run_cycle returns is the
\* cumulative counter, not the number kept in that cycle.
C28_LifetimeTotals ==
    LET events(type) == { i \in DOMAIN log : log[i].type = type }
    IN  /\ ret.op = "run" =>
            /\ ret.out.cycles = cycle_count
            /\ ret.out.cycles = ret.startCycle + ret.iterations
            /\ ret.out.cycles = Cardinality(events("reflect"))
            /\ ~ret.broke => ret.iterations = ret.max
            /\ (~ret.broke /\ ret.startCycle = ret.max)
                    => ret.out.cycles = 2 * ret.max
            /\ ret.out.total_experiments = total_experiments
            /\ ret.out.total_experiments = Cardinality(events("act"))
            /\ ret.out.improvements = improvements
            /\ ret.out.improvements =
                    Cardinality({ i \in events("act") : Keep(log[i].data) })
        /\ ret.op = "run_cycle" =>
            /\ ret.out.improvements = improvements
            /\ ret.out.improvements =
                    ret.improvementsBefore + log[Len(log)].data.kept
            /\ ret.out.improvements =
                    Cardinality({ i \in events("act") : Keep(log[i].data) })

\* The second run(1) of a loop, not stopped early, after a first cycle that
\* kept an experiment: it returns 2 cycles and the experiments and
\* improvements of both
C28_Witness ==
    /\ ret.op = "run"
    /\ ret.max = 1
    /\ ret.startCycle = 1
    /\ ~ret.broke
    /\ ret.out.cycles = 2
    /\ ret.startImprovements > 0
    /\ ret.out.improvements > improvements - ret.startImprovements
    /\ ret.out.total_experiments = 2 * ExperimentsPerCycle


\* C29: whenever PythonLoader.build calls the factory, it passes the
\* configured kwargs mapping as keyword arguments, for every shape of args
\* (absent, a mapping, a list or tuple, a single value), and it passes args
\* as the factory's arguments.
C29_KwargsPassed ==
    (/\ ret.op = "materialize"
     /\ ret.invoked
     /\ ret.res.tag = "return"
     /\ "result" \in ret.res.keys) =>
        LET conf == GetComponent(components, ret.uid).conf
        IN  /\ conf.kwargs # Absent =>
                ret.res.call.keywords \in {"kwargs", "args and kwargs"}
            /\ conf.args = "dict" =>
                ret.res.call.keywords \in {"args", "args and kwargs"}
            /\ conf.args = "list" => ret.res.call.positional = "each of args"
            /\ conf.args = "scalar" => ret.res.call.positional = "args"



\* C30: run_all_validations returns True exactly when the phi-smoothing, the
\* RDoD and the convergence-package validation all pass, and returns False,
\* main then exiting with status 1, when any of them fails.
C30_VerdictReturned ==
    (ret.op = "run_all_validations" /\ ~ret.raised) =>
        /\ ret.out = (ret.phi /\ ret.rdod /\ ret.package.out)
        /\ ret.status = IF ret.phi /\ ret.rdod /\ ret.package.out
                        THEN 0 ELSE 1

=============================================================================
